---- MODULE Spec2Model ----
(***************************************************************************)
(* Capture pipeline of forever-loved: directScrape (services/scraper.js),  *)
(* runArchiver (services/archiver.js) and the response listener, with the  *)
(* route discovery computed on character strings as the source does.       *)
(***************************************************************************)
EXTENDS Integers, Sequences, FiniteSets, TLC

(***************************************************************************)
(* JavaScript string primitives used by the source.                        *)
(***************************************************************************)
CharAt(s, i) == SubSeq(s, i, i)

StartsWith(s, p) == Len(p) <= Len(s) /\ SubSeq(s, 1, Len(p)) = p

StartsWithAt(s, i, p) == i + Len(p) - 1 <= Len(s) /\ SubSeq(s, i, i + Len(p) - 1) = p

EndsWith(s, p) == Len(p) <= Len(s) /\ SubSeq(s, Len(s) - Len(p) + 1, Len(s)) = p

Includes(s, p) == \E i \in 1..(Len(s) - Len(p) + 1) : SubSeq(s, i, i + Len(p) - 1) = p

\* index of the first occurrence of the one-character string c in s, 0 if none
IndexOfChar(s, c) ==
    IF \E i \in 1..Len(s) : CharAt(s, i) = c
    THEN CHOOSE i \in 1..Len(s) : CharAt(s, i) = c /\ \A j \in 1..(i - 1) : CharAt(s, j) # c
    ELSE 0

\* s.split(c)[0]
SplitFirst(s, c) ==
    LET i == IndexOfChar(s, c)
    IN IF i = 0 THEN s ELSE SubSeq(s, 1, i - 1)

\* Set.add / Array membership on an insertion-ordered collection
SeqToSet(q) == {q[i] : i \in 1..Len(q)}

\* the elements of q at the positions of keep, in order
KeepAt(q, keep) ==
    [k \in 1..Cardinality(keep) |-> q[CHOOSE i \in keep : Cardinality({j \in keep : j <= i}) = k]]

\* Set.add of every element of xs in turn, on a Set holding q: each value stays where
\* it was first added
AddAll(q, xs) ==
    KeepAt(q \o xs, {i \in 1..(Len(q) + Len(xs)) : \A j \in 1..(i - 1) : (q \o xs)[j] # (q \o xs)[i]})

\* Array.join(sep)
RECURSIVE Join(_, _)
Join(texts, sep) ==
    IF texts = <<>> THEN ""
    ELSE IF Len(texts) = 1 THEN texts[1]
    ELSE texts[1] \o sep \o Join(Tail(texts), sep)

Min(a, b) == IF a <= b THEN a ELSE b

\* the least and the greatest of a non-empty set of positions
Least(S) == CHOOSE j \in S : \A h \in S : j <= h

Greatest(S) == CHOOSE j \in S : \A h \in S : h <= j

\* the same, with d for the empty set
LeastOr(S, d) == IF S = {} THEN d ELSE Least(S)

GreatestOr(S, d) == IF S = {} THEN d ELSE Greatest(S)

(***************************************************************************)
(* Regular expressions of the route discovery.  A pattern is a sequence of *)
(* elements: a literal, \s*, [^>]+, the opening or closing quote class     *)
(* ["'], a literal double quote, and the capture group.                    *)
(***************************************************************************)
Lower == {"a","b","c","d","e","f","g","h","i","j","k","l","m",
          "n","o","p","q","r","s","t","u","v","w","x","y","z"}

Upper == {"A","B","C","D","E","F","G","H","I","J","K","L","M",
          "N","O","P","Q","R","S","T","U","V","W","X","Y","Z"}

Digit == {"0","1","2","3","4","5","6","7","8","9"}

\* [a-zA-Z0-9_/-]
RouteClass == Lower \cup Upper \cup Digit \cup {"_", "/", "-"}

\* [a-zA-Z0-9_-]
BareClass == Lower \cup Upper \cup Digit \cup {"_", "-"}

\* \s
Space == {" ", "\n", "\t", "\r"}

\* ["']
Quote == {"\"", "'"}

\* end (exclusive) of the longest run of characters of cls starting at i
RunEnd(t, i, cls) ==
    IF i > Len(t) THEN i ELSE LeastOr({j \in i..Len(t) : CharAt(t, j) \notin cls}, Len(t) + 1)

NoMatch == [ok |-> FALSE, end |-> 0, cap |-> ""]

Lit(s) == [k |-> "lit", s |-> s]
Ws == [k |-> "ws", s |-> ""]
NotGt == [k |-> "notgt", s |-> ""]
Q == [k |-> "quote", s |-> ""]
Cap(cls) == [k |-> "cap", s |-> cls]

\* match of pattern elements pat[k..] at position i of t; cap is group 1
RECURSIVE MatchFrom(_, _, _, _, _)
MatchFrom(t, i, pat, k, cap) ==
    IF k > Len(pat) THEN [ok |-> TRUE, end |-> i, cap |-> cap]
    ELSE LET e == pat[k] IN
      CASE e.k = "lit" ->
             IF StartsWithAt(t, i, e.s) THEN MatchFrom(t, i + Len(e.s), pat, k + 1, cap)
             ELSE NoMatch
        [] e.k = "ws" -> MatchFrom(t, RunEnd(t, i, Space), pat, k + 1, cap)
        [] e.k = "quote" ->
             IF i <= Len(t) /\ CharAt(t, i) \in Quote THEN MatchFrom(t, i + 1, pat, k + 1, cap)
             ELSE NoMatch
        [] e.k = "cap" ->
             \* (\/[class]+): a slash and at least one class character, greedy
             IF i <= Len(t) /\ CharAt(t, i) = "/" /\ RunEnd(t, i + 1, e.s) > i + 1
             THEN LET j == RunEnd(t, i + 1, e.s)
                  IN MatchFrom(t, j, pat, k + 1, SubSeq(t, i, j - 1))
             ELSE NoMatch
        [] e.k = "notgt" ->
             \* [^>]+ greedy with backtracking: the longest run that lets the rest match
             LET top == RunEnd(t, i, {CharAt(t, j) : j \in 1..Len(t)} \ {">"})
                 good == {j \in (i + 1)..top : MatchFrom(t, j, pat, k + 1, cap).ok}
             IN IF good = {} THEN NoMatch
                ELSE MatchFrom(t, Greatest(good), pat, k + 1, cap)

\* while ((match = pattern.exec(text)) !== null): every match[1], left to right,
\* each search starting where the previous match ended
RECURSIVE ExecAll(_, _, _)
\* the match m was found: its capture, then the search goes on at lastIndex
ExecNext(t, pat, m) == <<m.cap>> \o ExecAll(t, m.end, pat)

\* starts holds the positions at which the pattern matches
ExecFirst(t, pat, starts) ==
    IF starts = {} THEN <<>> ELSE ExecNext(t, pat, MatchFrom(t, Least(starts), pat, 1, ""))

ExecAll(t, i, pat) == ExecFirst(t, pat, {j \in i..Len(t) : MatchFrom(t, j, pat, 1, "").ok})

\* the routePatterns of the in-page discovery (inline script text)
inlinePatterns ==
    << <<Lit("path:"), Ws, Q, Cap(RouteClass), Q>>,
       <<Lit("to="), Q, Cap(RouteClass), Q>>,
       <<Lit("navigate("), Q, Cap(RouteClass), Q>>,
       <<Lit("{"), Ws, Lit("path:"), Ws, Q, Cap(RouteClass), Q>>,
       <<Lit("<Route"), NotGt, Lit("path="), Q, Cap(RouteClass), Q>> >>

\* the routePatterns of the bundle scan
bundlePatterns ==
    << <<Lit("path:"), Ws, Q, Cap(RouteClass), Q>>,
       <<Lit("to:"), Ws, Q, Cap(RouteClass), Q>>,
       <<Lit("navigate("), Q, Cap(RouteClass), Q>>,
       <<Lit("\""), Cap(BareClass), Lit("\"")>> >>

\* all captures of all patterns, pattern by pattern
RECURSIVE AllCaptures(_, _, _)
AllCaptures(t, pats, k) ==
    IF k > Len(pats) THEN <<>>
    ELSE ExecAll(t, 1, pats[k]) \o AllCaptures(t, pats, k + 1)

(***************************************************************************)
(* new URL(u): scheme, hostname and pathname of an absolute URL without    *)
(* userinfo and without dot segments (the URLs of the model have neither). *)
(***************************************************************************)
UpperSeq == "ABCDEFGHIJKLMNOPQRSTUVWXYZ"

LowerSeq == "abcdefghijklmnopqrstuvwxyz"

LowerOf(c) == IF c \in Upper THEN CharAt(LowerSeq, IndexOfChar(UpperSeq, c)) ELSE c

\* String.prototype.toLowerCase, character by character
RECURSIVE ToLowerCase(_)
ToLowerCase(s) ==
    IF Len(s) = 0 THEN ""
    ELSE IF Len(s) = 1 THEN LowerOf(s)
    ELSE ToLowerCase(SubSeq(s, 1, Len(s) \div 2)) \o ToLowerCase(SubSeq(s, Len(s) \div 2 + 1, Len(s)))

\* index of the first character of s at or after i that is in stops, Len(s)+1 if none
FindStop(s, i, stops) ==
    IF i > Len(s) THEN i ELSE LeastOr({j \in i..Len(s) : CharAt(s, j) \in stops}, Len(s) + 1)

\* position of the first character after "://", 0 when u has no authority part
AuthorityStart(u) ==
    LET c == IndexOfChar(u, ":")
    IN IF c > 1 /\ StartsWithAt(u, c, "://") THEN c + 3 ELSE 0

\* new URL(u) does not throw
IsParsableUrl(u) ==
    LET a == AuthorityStart(u)
    IN a > 0 /\ FindStop(u, a, {"/", "?", "#"}) > a

UrlHost(u) ==
    LET a == AuthorityStart(u)
    IN ToLowerCase(SubSeq(u, a, FindStop(u, a, {"/", "?", "#"}) - 1))

\* URL.hostname: the host without the port
UrlHostname(u) == SplitFirst(UrlHost(u), ":")

\* URL.pathname: "/" when the URL has no path
UrlPathname(u) ==
    LET a == AuthorityStart(u)
        p == FindStop(u, a, {"/", "?", "#"})
        e == FindStop(u, p, {"?", "#"})
    IN IF e = p THEN "/" ELSE SubSeq(u, p, e - 1)

(***************************************************************************)
(* Route discovery, scraper.js 195-308.                                    *)
(***************************************************************************)
\* the anchor branch of links.forEach: the route an href contributes, "" if none.
AnchorRouteKeepsFragment(href, baseUrl) ==
    IF href = "" THEN ""
    ELSE IF StartsWith(href, "/") /\ ~StartsWith(href, "//")
    THEN LET cleanRoute == SplitFirst(href, "?")
         IN IF cleanRoute # "" /\ cleanRoute # "/" THEN cleanRoute ELSE ""
    ELSE ""

AnchorRoute(href, baseUrl) ==
    IF href = "" THEN ""
    ELSE IF StartsWith(href, "/") /\ ~StartsWith(href, "//")
    THEN LET cleanRoute == SplitFirst(SplitFirst(href, "?"), "#")
         IN IF cleanRoute # "" /\ cleanRoute # "/" THEN cleanRoute ELSE ""
    ELSE IF StartsWith(href, baseUrl) /\ IsParsableUrl(href)
    THEN LET cleanRoute == SplitFirst(SplitFirst(UrlPathname(href), "?"), "#")
         IN IF cleanRoute # "" /\ cleanRoute # "/" THEN cleanRoute ELSE ""
    ELSE ""

\* links.forEach: the routes of the anchors, in document order
AnchorRoutes(hrefs, baseUrl) ==
    SelectSeq([i \in 1..Len(hrefs) |-> AnchorRoute(hrefs[i], baseUrl)], LAMBDA r : r # "")

\* the filter applied to a match of an inline-script pattern
InlineAccepts(route) ==
    route # "" /\ route # "/" /\ ~Includes(route, ":") /\ ~Includes(route, "*")

\* the routes of the matches of the inline-script patterns, in match order
InlineRoutes(caps) ==
    SelectSeq([i \in 1..Len(caps) |-> SplitFirst(SplitFirst(caps[i], "?"), "#")], InlineAccepts)

\* page.evaluate(...) of the discovery: Array.from(discoveredRoutes)
DomRoutes(hrefs, scripts, baseUrl) ==
    AddAll(AddAll(<<>>, AnchorRoutes(hrefs, baseUrl)),
           InlineRoutes(AllCaptures(Join(scripts, "\n"), inlinePatterns, 1)))

\* the filter applied to a match of a bundle pattern
\* the filter of the bundle scan without its two reserved prefixes
BundleAcceptsReserved(route) ==
    /\ route # ""
    /\ route # "/"
    /\ ~Includes(route, ":")
    /\ ~Includes(route, "*")
    /\ Len(route) > 1
    /\ Len(route) < 50

BundleAccepts(route) ==
    /\ route # ""
    /\ route # "/"
    /\ ~Includes(route, ":")
    /\ ~Includes(route, "*")
    /\ ~StartsWith(route, "/assets")
    /\ ~StartsWith(route, "/api")
    /\ Len(route) > 1
    /\ Len(route) < 50

SelectBundle(caps) == SelectSeq(caps, BundleAccepts)

IsBundleUrl(url) ==
    (EndsWith(url, ".js") \/ EndsWith(url, ".mjs")) /\ ~Includes(url, "flock.js")

\* jsRoutes: the scan of every captured bundle, in registry order
RECURSIVE JsRoutes(_)
JsRoutes(registry) ==
    IF registry = <<>> THEN <<>>
    ELSE (IF IsBundleUrl(registry[1].url)
          THEN SelectBundle(AllCaptures(registry[1].buffer, bundlePatterns, 1))
          ELSE <<>>) \o JsRoutes(Tail(registry))

\* Array.filter(r => !other.includes(r))
FilterNotIn(q, other) == SelectSeq(q, LAMBDA x : x \notin SeqToSet(other))

\* routes after routes.push(...additionalRoutes)
MergeRoutes(domRoutes, registry) ==
    domRoutes \o FilterNotIn(AddAll(<<>>, JsRoutes(registry)), domRoutes)

\* config.scraping.maxRoutes
maxRoutes == 50

NoSlice(rs) == rs

\* routes.slice(0, config.scraping.maxRoutes)
SliceRoutes(rs) == SubSeq(rs, 1, Min(Len(rs), maxRoutes))

(***************************************************************************)
(* State of one runArchiver execution and of the directScrape it awaits.   *)
(***************************************************************************)
VARIABLES
    targetUrl, projectID, isOldFormat,  \* the arguments of runArchiver
    anchors, scripts,                   \* the homepage DOM: href of each a[href], text of each inline script
    charts,                             \* the routes on which waitForSelector('canvas, svg') finds an element
    served,                             \* the responses the site and its third parties can produce
    scroller,                           \* the scroll loop running in the page, lines 136-150
    faultBudget, respBudget,            \* failures and responses the environment may still produce
    pc,                                 \* the awaited step of runArchiver / directScrape
    browser,                            \* "none", "open", "closed"
    listening,                          \* page.on('response') is attached
    resources,                          \* the Map url -> {buffer, type, url}, in insertion order
    received,                           \* every response whose body read was started, in arrival order,
                                        \* with the state of the read: "pending", "resolved",
                                        \* "rejected", and, while the read is pending, the number
                                        \* of the visit it arrived in and whether the bundle scan
                                        \* had run
    warnings,                           \* console.warn entries of the response listener
    routeHtmls,                         \* the Map route -> html, in insertion order
    discoveredRoutes,                   \* the Set of line 50
    routes, routesToVisit, idx,         \* the route list, its slice, the loop position (1-based)
    hasCharts,                          \* hasChartsOnHomepage / hasCharts of the visit in progress
    visits,                             \* one record per page.goto call, in call order
    thrown,                             \* the step whose failure directScrape rejected with, "" if none
    disk,                               \* the filesystem: [dirs, files]
    htmlHash, downloadFolder, manifestId, arnsInfo, db,
    uploads,                            \* number of uploadFolderToArweave calls
    result,                             \* "running", "resolved", "archiveerror", "arerror"
    requests,                           \* the POST /archive requests of the service, one record each,
                                        \* in the order they arrive
    activeArchiveRequests,              \* the counter of concurrentLimiter
    archives,                           \* the rows of table archives, keyed by project_id
    live,                               \* the versions of their pages the sites serve: the one served
                                        \* now, then the ones their owners will publish
    client                              \* the page calling archiveProject: its position and its fetches

site == <<targetUrl, projectID, isOldFormat, anchors, scripts, charts, served, scroller>>
service == <<requests, activeArchiveRequests, archives, live, client>>
args == <<site, service>>
regs == <<resources, received, warnings, respBudget>>
scrape == <<routeHtmls, discoveredRoutes, routes, routesToVisit, idx, hasCharts, visits>>
arch == <<htmlHash, downloadFolder, manifestId, arnsInfo, db, uploads, result>>
vars == <<args, regs, scrape, disk, arch, faultBudget, pc, browser, listening, thrown>>

\* null where a string is expected
Null == "null"

\* a nullable record is a sequence: empty for null, else the record alone
NoValue == <<>>

\* no request has reached the service and no page has called archiveProject
NoService ==
    /\ requests = <<>>
    /\ activeArchiveRequests = 0
    /\ archives = <<>>
    /\ live = <<"1">>
    /\ client = NoValue
    /\ scroller = NoValue

\* runArchiver 638-640
urlToArchive ==
    IF isOldFormat THEN "https://id-preview--" \o projectID \o ".lovable.app/" ELSE targetUrl

\* an awaited step succeeds, or fails while the environment may still produce a failure
Outcome(ok) ==
    /\ ok \/ faultBudget > 0
    /\ faultBudget' = IF ok THEN faultBudget ELSE faultBudget - 1

\* Map.prototype.set on an insertion-ordered list of records keyed by field key
MapSet(m, key, entry) ==
    IF \E i \in 1..Len(m) : m[i][key] = entry[key]
    THEN [i \in 1..Len(m) |-> IF m[i][key] = entry[key] THEN entry ELSE m[i]]
    ELSE Append(m, entry)

MapKeys(m, key) == {m[i][key] : i \in 1..Len(m)}

MapGet(m, key, k) == m[CHOOSE i \in 1..Len(m) : m[i][key] = k]

\* the document the page renders at a route, as page.content() returns it
RenderedHtml(route) == "<html><!--" \o route \o "--></html>"

(***************************************************************************)
(* The response listener, scraper.js 52-126.                               *)
(***************************************************************************)
analyticsHosts ==
    {"google-analytics.com", "googletagmanager.com", "doubleclick.net", "googleadservices.com",
     "hotjar.io", "hotjar.com", "ahrefs.com", "www.google.com"}

benignErrorsShort ==
    {"No data found for resource", "Response body is unavailable for redirect"}

SkipsOtherSchemesOnly(url, type, known) == ~StartsWith(url, "http")

benignErrors ==
    {"No data found for resource", "Response body is unavailable for redirect",
     "evicted from inspector cache"}

\* the synchronous part of the listener returns before response.buffer() is called
ListenerSkips(url, type, known) ==
    \/ ~StartsWith(url, "http")
    \/ IsParsableUrl(url) /\ \E ah \in analyticsHosts : Includes(UrlHostname(url), ah)
    \/ type = "document" /\ IsParsableUrl(url) /\ UrlPathname(url) \in known

\* the steps during which the page exists and can receive responses
PageSteps ==
    {"home_nav", "home_scroll", "home_probe", "home_delay", "home_settle", "home_capture", "discover",
     "route_nav", "route_scroll", "route_probe", "route_idle", "route_delay", "route_settle",
     "route_capture", "final_delay", "close"}

\* the messages response.buffer() rejects with
ReadErrors ==
    {"No data found for resource with given identifier",
     "Response body is unavailable for redirect responses",
     "Request content was evicted from inspector cache",
     "Protocol error (Network.getResponseBody): Target closed"}

(***************************************************************************)
(* Node's path module (POSIX) and the fs calls of the materializer.        *)
(***************************************************************************)
\* s.split("/")
RECURSIVE SplitSlash(_)
SplitSlash(s) ==
    LET i == IndexOfChar(s, "/")
    IN IF i = 0 THEN <<s>>
       ELSE <<SubSeq(s, 1, i - 1)>> \o SplitSlash(SubSeq(s, i + 1, Len(s)))

\* resolution of "", "." and ".." segments; out is the stack of kept segments
RECURSIVE NormSegs(_, _, _)
NormSegs(segs, out, absolute) ==
    IF segs = <<>> THEN out
    ELSE LET h == segs[1] IN
         IF h = "" \/ h = "." THEN NormSegs(Tail(segs), out, absolute)
         ELSE IF h = ".."
         THEN IF out # <<>> /\ out[Len(out)] # ".."
              THEN NormSegs(Tail(segs), SubSeq(out, 1, Len(out) - 1), absolute)
              ELSE IF absolute THEN NormSegs(Tail(segs), out, absolute)
              ELSE NormSegs(Tail(segs), Append(out, ".."), absolute)
         ELSE NormSegs(Tail(segs), Append(out, h), absolute)

\* path.normalize
PathNormalize(p) ==
    IF p = "" THEN "."
    ELSE LET absolute == StartsWith(p, "/")
             trailing == EndsWith(p, "/")
             body == Join(NormSegs(SplitSlash(p), <<>>, absolute), "/")
         IN IF body = "" THEN (IF absolute THEN "/" ELSE IF trailing THEN "./" ELSE ".")
            ELSE (IF absolute THEN "/" ELSE "") \o body \o (IF trailing THEN "/" ELSE "")

\* path.join(a, b)
PathJoin(a, b) == PathNormalize(IF a = "" THEN b ELSE IF b = "" THEN a ELSE a \o "/" \o b)

\* index of the last "/" of p, 0 if none
LastSlash(p) ==
    IF \E i \in 1..Len(p) : CharAt(p, i) = "/"
    THEN CHOOSE i \in 1..Len(p) : CharAt(p, i) = "/" /\ \A j \in (i + 1)..Len(p) : CharAt(p, j) # "/"
    ELSE 0

\* trailing slashes are not part of the last component of a path
RECURSIVE StripTrailing(_)
StripTrailing(p) ==
    IF Len(p) > 1 /\ EndsWith(p, "/") THEN StripTrailing(SubSeq(p, 1, Len(p) - 1)) ELSE p

\* path.dirname
PathDirname(p) ==
    LET q == StripTrailing(p)
        i == LastSlash(q)
    IN IF i = 0 THEN "." ELSE IF i = 1 THEN "/" ELSE StripTrailing(SubSeq(q, 1, i - 1))

\* the working directory of the server process, against which relative paths resolve
cwd == "/app"

\* the absolute path an fs call acts on: a relative path resolves against cwd
Abs(p) == StripTrailing(PathNormalize(IF StartsWith(p, "/") THEN p ELSE cwd \o "/" \o p))

\* p and its ancestors below the root, the shortest first
RECURSIVE Ancestry(_)
Ancestry(p) ==
    IF p = "/" \/ p = "." THEN <<>> ELSE Append(Ancestry(PathDirname(p)), p)

\* a filesystem is a record [dirs, files]: the directories and the content of each file.
\* The fs operators take the path as resolved by Abs; path.join and path.dirname of an
\* absolute path return such a path.
ExistsSync(fs, p) == p \in fs.dirs \/ p \in DOMAIN fs.files

IsFile(fs, p) == p \in DOMAIN fs.files

\* fs.mkdirSync(p, {recursive: true}) throws ENOTDIR / EEXIST when a component is a file
MkdirBlocked(fs, p) == \E a \in SeqToSet(Ancestry(p)) : a \in DOMAIN fs.files

MkdirSync(fs, p) == [fs EXCEPT !.dirs = @ \cup SeqToSet(Ancestry(p))]

\* fs.writeFileSync(p, data) throws when p names a directory or its parent is not one
WriteBlocked(fs, p) ==
    \/ EndsWith(p, "/")
    \/ p \in fs.dirs
    \/ PathDirname(p) \notin fs.dirs \cup {"/"}

WriteFileSync(fs, p, data) ==
    [fs EXCEPT !.files = [q \in DOMAIN @ \cup {p} |-> IF q = p THEN data ELSE @[q]]]

\* a write inside try/catch: a throw leaves the filesystem as it is
TryWrite(fs, p, data) == IF WriteBlocked(fs, p) THEN fs ELSE WriteFileSync(fs, p, data)

UnlinkSync(fs, p) ==
    [fs EXCEPT !.files = [q \in DOMAIN @ \ {p} |-> @[q]]]

\* fs.rmSync(p, {recursive: true, force: true})
RmSync(fs, p) ==
    [dirs |-> {d \in fs.dirs : d # p /\ ~StartsWith(d, p \o "/")},
     files |-> [q \in {f \in DOMAIN fs.files : f # p /\ ~StartsWith(f, p \o "/")} |-> fs.files[q]]]

(***************************************************************************)
(* The rewrite rules of saveResourcesToDisk (481-513) and of               *)
(* saveRouteHTMLFiles (552-575).  Every rule is a global replace; RuleAt   *)
(* gives the match of rule k that starts at position i of t and the text   *)
(* that replaces it.  Rules 1-6 are those of scripts and stylesheets, in   *)
(* source order; rules 7-14 are those of route markup, in source order.    *)
(***************************************************************************)
\* the template-literal delimiter (backquote); a TLA+ string cannot hold that character,
\* so the texts of the model write it as a tilde, which they use for nothing else
Backtick == "~"

\* p, written in lower case, is at position i of t in any case (the i flag)
StartsWithAtCI(t, i, p) ==
    i + Len(p) - 1 <= Len(t) /\ ToLowerCase(SubSeq(t, i, i + Len(p) - 1)) = p

\* https?:\/\/ at position i: the position after it, 0 if it is not there
SchemeEnd(t, i) ==
    IF StartsWithAtCI(t, i, "http://") THEN i + 7
    ELSE IF StartsWithAtCI(t, i, "https://") THEN i + 8
    ELSE 0

\* the last "lovable.app/" within s..e-1 (the run before it is greedy): position of its slash, 0 if none
LovableSlash(t, s, e) ==
    GreatestOr({k + 11 : k \in {k \in s..(e - 12) : StartsWithAtCI(t, k, "lovable.app/")}}, 0)

NoRule == [ok |-> FALSE, end |-> 0, out |-> ""]

\* the quote a replacement writes: the one matched, or a double quote
QuoteOut(t, o, same) == IF same THEN CharAt(t, o) ELSE "\""

\* a lovable.app URL from s to the delimiter at e, opened by the delimiter at o
LovableTo(t, o, s, e, same, pre, post) ==
    IF /\ e <= Len(t)
       /\ same => CharAt(t, e) = CharAt(t, o)
       /\ LovableSlash(t, s, e) > 0
       /\ StartsWithAt(t, e + 1, post)
    THEN [ok |-> TRUE, end |-> e + 1 + Len(post),
          out |-> pre \o QuoteOut(t, o, same) \o SubSeq(t, LovableSlash(t, s, e), e - 1)
                      \o QuoteOut(t, o, same) \o post]
    ELSE NoRule

\* delimiter, scheme, anything up to lovable.app, the path, delimiter (the same one, or
\* any of closers), then post; replaced by pre, the path between delimiters, post
QuotedLovable(t, o, closers, same, pre, post) ==
    IF o > Len(t) \/ CharAt(t, o) \notin closers \/ SchemeEnd(t, o + 1) = 0 THEN NoRule
    ELSE LovableTo(t, o, SchemeEnd(t, o + 1), FindStop(t, SchemeEnd(t, o + 1), closers),
                   same, pre, post)

\* an URL whose host is s..h-1 and whose path ends at the delimiter at e
ExternalTo(t, o, s, h, e, same, pre, kept) ==
    IF /\ h > s /\ h <= Len(t) /\ CharAt(t, h) = "/"
       /\ e <= Len(t)
       /\ same => CharAt(t, e) = CharAt(t, o)
    THEN [ok |-> TRUE, end |-> e + 1,
          out |-> IF \E x \in kept : Includes(SubSeq(t, s, h - 1), x) THEN pre \o SubSeq(t, o, e)
                  ELSE pre \o QuoteOut(t, o, same) \o "/_external/" \o SubSeq(t, s, h - 1)
                           \o SubSeq(t, h, e - 1) \o QuoteOut(t, o, same)]
    ELSE NoRule

ExternalHost(t, o, s, h, closers, same, pre, kept) ==
    ExternalTo(t, o, s, h, FindStop(t, h, closers), same, pre, kept)

\* delimiter, scheme, host up to the first slash, path up to the delimiter; the match is
\* kept when the host includes a text of kept, else it moves under /_external/
ExternalUrl(t, o, closers, same, pre, kept) ==
    IF o > Len(t) \/ CharAt(t, o) \notin closers \/ SchemeEnd(t, o + 1) = 0 THEN NoRule
    ELSE ExternalHost(t, o, SchemeEnd(t, o + 1),
                      FindStop(t, SchemeEnd(t, o + 1), closers \cup {"/"}), closers, same, pre, kept)

\* the position after the first occurrence of p at or after from, in any case; 0 if none
SkipTo(t, from, p) ==
    LeastOr({j + Len(p) : j \in {j \in from..(Len(t) - Len(p) + 1) : StartsWithAtCI(t, j, p)}}, 0)

\* lazily each needle in turn: the position after the last one, 0 if one is missing
RECURSIVE LazyChain(_, _, _)
LazyChain(t, from, needles) ==
    IF needles = <<>> \/ from = 0 THEN from
    ELSE LazyChain(t, SkipTo(t, from, needles[1]), Tail(needles))

\* the match ends before e and is replaced by a comment; e = 0 when there is no match
Removed(e, comment) == IF e = 0 THEN NoRule ELSE [ok |-> TRUE, end |-> e, out |-> comment]

\* a script element whose text holds the needles in turn
ScriptBlock(t, i, needles, comment) ==
    IF ~StartsWithAtCI(t, i, "<script") \/ FindStop(t, i + 7, {">"}) > Len(t) THEN NoRule
    ELSE Removed(LazyChain(t, FindStop(t, i + 7, {">"}) + 1, Append(needles, "</script>")), comment)

analyticsNames ==
    {"google-analytics", "googletagmanager", "doubleclick", "googleadservices", "hotjar", "ahrefs"}

\* a script tag whose src value names an analytics host, immediately closed; the tag text
\* before src= is greedy, so the last src= that lets the rest match is taken
AnalyticsSrc(t, i) ==
    IF ~StartsWithAtCI(t, i, "<script") THEN NoRule
    ELSE LET valEnd(a) == FindStop(t, a + 5, Quote)
             tagEnd(a) == FindStop(t, valEnd(a) + 1, {">"})
         IN Removed(GreatestOr({tagEnd(a) + 10 : a \in
                       {a \in (i + 7)..FindStop(t, i + 7, {">"}) :
                          /\ StartsWithAtCI(t, a, "src=")
                          /\ a + 4 <= Len(t) /\ CharAt(t, a + 4) \in Quote
                          /\ valEnd(a) <= Len(t)
                          /\ \E n \in analyticsNames :
                               Includes(ToLowerCase(SubSeq(t, a + 5, valEnd(a) - 1)), n)
                          /\ StartsWithAtCI(t, tagEnd(a), "></script>")}}, 0),
                    "<!-- Analytics script removed -->")

\* (href|src)= at i: the attribute name as written, "" if none
AttrAt(t, i) ==
    IF StartsWithAtCI(t, i, "href=") THEN SubSeq(t, i, i + 3)
    ELSE IF StartsWithAtCI(t, i, "src=") THEN SubSeq(t, i, i + 2)
    ELSE ""

\* hostname.includes(...) of rules 5 and 6, and of rule 14
keptHosts == {"lovable.app", "google", "facebook"}

keptHtmlHosts == {"lovable.app"}

RuleAt(k, t, i) ==
    CASE k = 1 ->  \* from, white space, quoted lovable.app URL
           IF StartsWithAtCI(t, i, "from") /\ RunEnd(t, i + 4, Space) > i + 4
           THEN QuotedLovable(t, RunEnd(t, i + 4, Space), Quote, TRUE, "from ", "")
           ELSE NoRule
      [] k = 2 ->  \* import, optional white space, parenthesised quoted lovable.app URL
           IF StartsWithAtCI(t, i, "import") /\ StartsWithAt(t, RunEnd(t, i + 6, Space), "(")
           THEN QuotedLovable(t, RunEnd(t, i + 6, Space) + 1, Quote, TRUE, "import(", ")")
           ELSE NoRule
      [] k = 3 -> QuotedLovable(t, i, {Backtick}, TRUE, "", "")
      [] k = 4 -> QuotedLovable(t, i, Quote, TRUE, "", "")
      [] k = 5 -> ExternalUrl(t, i, Quote, TRUE, "", keptHosts)
      [] k = 6 -> ExternalUrl(t, i, {Backtick}, TRUE, "", keptHosts)
      [] k = 7 ->  \* the rgb wrapper of a custom property (case-sensitive)
           IF /\ StartsWithAt(t, i, "rgb(var(--")
              /\ FindStop(t, i + 10, {")"}) > i + 10
              /\ StartsWithAt(t, FindStop(t, i + 10, {")"}), "))")
           THEN [ok |-> TRUE, end |-> FindStop(t, i + 10, {")"}) + 2,
                 out |-> "hsl(var(--" \o SubSeq(t, i + 10, FindStop(t, i + 10, {")"}) - 1) \o "))"]
           ELSE NoRule
      [] k = 8 -> AnalyticsSrc(t, i)
      [] k = 9 -> ScriptBlock(t, i, <<"googletagmanager.com/gtm.js">>, "<!-- GTM script removed -->")
      [] k = 10 -> ScriptBlock(t, i, <<"_hjsettings">>, "<!-- Hotjar script removed -->")
      [] k = 11 -> ScriptBlock(t, i, <<"window.datalayer", "gtag">>, "<!-- gtag script removed -->")
      [] k = 12 ->
           IF StartsWithAtCI(t, i, "<noscript>")
           THEN Removed(LazyChain(t, i + 10, <<"googletagmanager.com/ns.html", "</noscript>">>),
                        "<!-- GTM noscript removed -->")
           ELSE NoRule
      [] k = 13 ->  \* href or src with a lovable.app URL, closed by either quote
           IF AttrAt(t, i) = "" THEN NoRule
           ELSE QuotedLovable(t, i + Len(AttrAt(t, i)) + 1, Quote, FALSE, AttrAt(t, i) \o "=", "")
      [] k = 14 ->  \* href or src with any other absolute URL
           IF AttrAt(t, i) = "" THEN NoRule
           ELSE ExternalUrl(t, i + Len(AttrAt(t, i)) + 1, Quote, FALSE, AttrAt(t, i) \o "=",
                            keptHtmlHosts)

\* String.prototype.replace with a global regular expression: rule k over t from position i
RECURSIVE ReplaceRule(_, _, _)
\* hit is the first match and its position: the text before it, its replacement, the rest
Splice(k, t, i, hit) == SubSeq(t, i, hit[1] - 1) \o hit[2].out \o ReplaceRule(k, t, hit[2].end)

ReplaceFirst(k, t, i, hits) ==
    IF hits = {} THEN SubSeq(t, i, Len(t))
    ELSE Splice(k, t, i, CHOOSE x \in hits : \A h \in hits : x[1] <= h[1])

ReplaceRule(k, t, i) ==
    ReplaceFirst(k, t, i, {x \in {<<j, RuleAt(k, t, j)>> : j \in i..Len(t)} : x[2].ok})

\* the rules k..last applied one after the other
RECURSIVE ApplyRules(_, _, _)
ApplyRules(t, k, last) ==
    IF k > last THEN t ELSE ApplyRules(ReplaceRule(k, t, 1), k + 1, last)

\* the content written back to a .js, .mjs or .css file
RewriteScript(content) == ApplyRules(content, 1, 6)

\* modifiedHtml as written to <route>/index.html
RewriteHtml(html) == ApplyRules(html, 7, 14)

(***************************************************************************)
(* saveResourcesToDisk (408-528) and saveRouteHTMLFiles (533-584).         *)
(***************************************************************************)
\* the analyticsHosts of saveResourcesToDisk
diskAnalyticsHosts ==
    {"google-analytics.com", "googletagmanager.com", "doubleclick.net", "googleadservices.com",
     "hotjar.io", "hotjar.com", "ahrefs.com"}

\* the resource is skipped by the analytics check of line 417
DiskSkips(url) ==
    \/ \E ah \in diskAnalyticsHosts : Includes(UrlHostname(url), ah)
    \/ Includes(UrlPathname(url), "/pagead/")

\* lines 428-431: a trailing slash is removed from the path of an external resource
TrimSlash(pathname) ==
    IF EndsWith(pathname, "/") /\ Len(pathname) > 1
    THEN SubSeq(pathname, 1, Len(pathname) - 1) ELSE pathname

HostedVerbatim(hostname, pathname) == pathname

\* lines 422-433
HostedPath(hostname, pathname) ==
    IF ~Includes(hostname, "lovable.app")
    THEN PathJoin("/_external", PathJoin(hostname, TrimSlash(pathname)))
    ELSE pathname

\* lines 436-438
IndexIfRoot(filePath) == IF filePath = "/" \/ filePath = "" THEN "/index.html" ELSE filePath

\* filePath of lines 422-438
ResourceFilePath(url) == IndexIfRoot(HostedPath(UrlHostname(url), UrlPathname(url)))

\* the loop of lines 449-463: currentPath is built without the leading separator, so the
\* fs calls resolve it against the working directory
RECURSIVE RemoveBlockers(_, _, _)
Unblock(fs, rest, currentPath, resolved) ==
    RemoveBlockers(IF ExistsSync(fs, resolved) /\ IsFile(fs, resolved) THEN UnlinkSync(fs, resolved)
                   ELSE fs,
                   rest, currentPath)

NextPath(fs, rest, currentPath) == Unblock(fs, rest, currentPath, Abs(currentPath))

RemoveBlockers(fs, parts, currentPath) ==
    IF parts = <<>> THEN fs
    ELSE IF parts[1] = "" THEN RemoveBlockers(fs, Tail(parts), currentPath)
    ELSE NextPath(fs, Tail(parts),
                  IF currentPath # "" THEN PathJoin(currentPath, parts[1]) ELSE parts[1])

\* the second mkdirSync of line 465: ok FALSE when it throws
MkdirAgain(cleared, dirPath) ==
    IF MkdirBlocked(cleared, dirPath) THEN [ok |-> FALSE, fs |-> cleared]
    ELSE [ok |-> TRUE, fs |-> MkdirSync(cleared, dirPath)]

\* lines 444-470: the filesystem afterwards
EnsureDir(fs, dirPath) ==
    IF ExistsSync(fs, dirPath) THEN [ok |-> TRUE, fs |-> fs]
    ELSE IF ~MkdirBlocked(fs, dirPath) THEN [ok |-> TRUE, fs |-> MkdirSync(fs, dirPath)]
    ELSE MkdirAgain(RemoveBlockers(fs, SplitSlash(dirPath), ""), dirPath)

IsRewritten(fullPath) ==
    EndsWith(fullPath, ".js") \/ EndsWith(fullPath, ".mjs") \/ EndsWith(fullPath, ".css")

\* how the try of lines 477-519 can throw: readFileSync throws, writeFileSync throws when
\* it opens the file, writeFileSync throws when the file is open (flag 'w': truncated)
RewriteFaults == {"read", "open", "write"}

\* the fault of the rewriting of url in faults, a set of [url, kind]; "none" if it has none
FaultOf(faults, url) ==
    IF \E f \in faults : f.url = url THEN (CHOOSE f \in faults : f.url = url).kind ELSE "none"

\* lines 477-519 for a file that holds buffer: what it holds when the try is left
RewrittenFile(buffer, fault) ==
    CASE fault = "none" -> RewriteScript(buffer)
      [] fault \in {"read", "open"} -> buffer
      [] fault = "write" -> ""

\* lines 472-517: the buffer is written, and rewritten when it is a script or a stylesheet
WriteResource(made, entry, fullPath, fault) ==
    IF ~made.ok THEN made.fs
    ELSE TryWrite(made.fs, fullPath,
                  IF IsRewritten(fullPath) THEN RewrittenFile(entry.buffer, fault)
                  ELSE entry.buffer)

StoreAt(fs, entry, fullPath, fault) ==
    WriteResource(EnsureDir(fs, PathDirname(fullPath)), entry, fullPath, fault)

\* one iteration of the loop of saveResourcesToDisk; a throw leaves the filesystem as it is then
SaveResource(fs, entry, downloadDir, faults) ==
    IF ~IsParsableUrl(entry.url) \/ DiskSkips(entry.url) THEN fs
    ELSE StoreAt(fs, entry, PathJoin(downloadDir, ResourceFilePath(entry.url)),
                 FaultOf(faults, entry.url))

RECURSIVE SaveUntilFailure(_, _, _, _)
StopIfSame(fs, saved, registry, downloadDir, faults) ==
    IF saved = fs THEN fs ELSE SaveUntilFailure(saved, Tail(registry), downloadDir, faults)

SaveUntilFailure(fs, registry, downloadDir, faults) ==
    IF registry = <<>> THEN fs
    ELSE StopIfSame(fs, SaveResource(fs, registry[1], downloadDir, faults), registry,
                    downloadDir, faults)

\* the loop of saveResourcesToDisk; faults names the files whose rewriting throws
RECURSIVE SaveResources(_, _, _, _)
SaveResources(fs, registry, downloadDir, faults) ==
    IF registry = <<>> THEN fs
    ELSE SaveResources(SaveResource(fs, registry[1], downloadDir, faults), Tail(registry),
                       downloadDir, faults)

\* the registry entries whose file saveResourcesToDisk rewrites
RewrittenEntries(registry, downloadDir) ==
    {registry[i].url : i \in {i \in 1..Len(registry) :
        /\ IsParsableUrl(registry[i].url)
        /\ ~DiskSkips(registry[i].url)
        /\ IsRewritten(PathJoin(downloadDir, ResourceFilePath(registry[i].url)))}}

\* at most budget rewritings that throw, each in one of the three ways
FaultChoices(registry, downloadDir, budget) ==
    {{}} \cup IF budget = 0 THEN {}
              ELSE {{[url |-> u, kind |-> k]} :
                       u \in RewrittenEntries(registry, downloadDir), k \in RewriteFaults}

\* the console.warn of line 521, once for each rewriting that threw
RewriteWarnings(fs, faults, downloadDir) ==
    {[url |-> f.url, msg |-> "Could not rewrite"] :
        f \in {f \in faults : PathJoin(downloadDir, ResourceFilePath(f.url)) \in DOMAIN fs.files}}

\* routePath of lines 538-543
RoutePath(route) == IF route = "/" THEN "index.html" ELSE PathJoin(route, "index.html")

\* lines 546-577 for the file at fullPath
StoreHtmlAt(fs, rec, fullPath) ==
    IF ExistsSync(fs, PathDirname(fullPath)) THEN TryWrite(fs, fullPath, RewriteHtml(rec.html))
    ELSE IF MkdirBlocked(fs, PathDirname(fullPath)) THEN fs
    ELSE TryWrite(MkdirSync(fs, PathDirname(fullPath)), fullPath, RewriteHtml(rec.html))

\* one iteration of the loop of saveRouteHTMLFiles
SaveRouteHtml(fs, rec, downloadDir) ==
    StoreHtmlAt(fs, rec, PathJoin(downloadDir, RoutePath(rec.route)))

RECURSIVE SaveRouteHtmls(_, _, _)
SaveRouteHtmls(fs, recs, downloadDir) ==
    IF recs = <<>> THEN fs
    ELSE SaveRouteHtmls(SaveRouteHtml(fs, recs[1], downloadDir), Tail(recs), downloadDir)

(***************************************************************************)
(* directScrape, scraper.js 22-403: one action per awaited step.  pc names *)
(* the step whose completion is awaited.                                   *)
(***************************************************************************)
\* line 24
ValidProjectID(p) ==
    p # "" /\ ~Includes(p, "..") /\ ~Includes(p, "/") /\ ~Includes(p, "\\")

\* path.resolve('/tmp', projectID) for a projectID without separators
downloadDir == StripTrailing(PathJoin("/tmp", projectID))

\* a visit starts when page.goto is called
NewVisit(route) ==
    [route |-> route, state |-> "running", probe |-> FALSE, idleWait |-> FALSE, delay |-> 0]

Last(q) == q[Len(q)]

SetLast(q, f, v) == [q EXCEPT ![Len(q)] = [@ EXCEPT ![f] = v]]

AbortLeak(step) ==
    /\ browser' = browser
    /\ thrown' = step
    /\ pc' = "scrape_catch"

\* the catch of lines 399-402: close the browser and rethrow to the caller
Abort(step) ==
    /\ browser' = "closed"
    /\ thrown' = step
    /\ pc' = "scrape_catch"

\* the head of the for loop: page.goto of route i is called, or the loop is left
EnterLoop(list, i, vs) ==
    IF i <= Len(list)
    THEN /\ pc' = "route_nav"
         /\ visits' = Append(vs, NewVisit(list[i]))
    ELSE /\ pc' = "final_delay"
         /\ visits' = vs

\* lines 24-37: the two checks of projectID, then the download directory is created
StartScrape ==
    /\ pc = "scrape"
    /\ IF ~ValidProjectID(projectID) \/ ~StartsWith(downloadDir, "/tmp/")
       THEN pc' = "scrape_catch" /\ thrown' = "validate" /\ disk' = disk
       ELSE /\ pc' = "launch"
            /\ thrown' = thrown
            /\ disk' = IF ExistsSync(disk, downloadDir) THEN disk ELSE MkdirSync(disk, downloadDir)
    /\ UNCHANGED <<args, regs, scrape, arch, faultBudget, browser, listening>>

\* puppeteer.launch is awaited outside the try: its rejection reaches the caller directly
Launch ==
    /\ pc = "launch"
    /\ \E ok \in BOOLEAN :
         /\ Outcome(ok)
         /\ IF ok THEN browser' = "open" /\ pc' = "new_page" /\ thrown' = thrown
            ELSE browser' = browser /\ pc' = "scrape_catch" /\ thrown' = "launch"
    /\ UNCHANGED <<args, regs, scrape, disk, arch, listening>>

\* browser.newPage(), the three collections, page.on('response'), then page.goto is called
NewPage ==
    /\ pc = "new_page"
    /\ \E ok \in BOOLEAN :
         /\ Outcome(ok)
         /\ IF ok
            THEN /\ listening' = TRUE
                 /\ resources' = <<>>
                 /\ routeHtmls' = <<>>
                 /\ discoveredRoutes' = {"/"}
                 /\ visits' = Append(visits, NewVisit("/"))
                 /\ pc' = "home_nav"
                 /\ UNCHANGED <<browser, thrown>>
            ELSE /\ Abort("new_page")
                 /\ UNCHANGED <<listening, resources, routeHtmls, discoveredRoutes, visits>>
    /\ UNCHANGED <<args, received, warnings, respBudget, routes, routesToVisit, idx, hasCharts,
                   disk, arch>>

HomeNavSwallow ==
    /\ pc = "home_nav"
    /\ \E ok \in BOOLEAN :
         /\ Outcome(ok)
         /\ pc' = "home_scroll"
         /\ thrown' = IF ok THEN thrown ELSE "home_nav"
         /\ visits' = IF ok THEN visits ELSE SetLast(visits, "state", "failed")
         /\ browser' = browser
    /\ UNCHANGED <<args, regs, routeHtmls, discoveredRoutes, routes, routesToVisit, idx, hasCharts,
                   disk, arch, listening>>

\* page.goto(urlToArchive) settles
HomeNav ==
    /\ pc = "home_nav"
    /\ \E ok \in BOOLEAN :
         /\ Outcome(ok)
         /\ IF ok THEN pc' = "home_scroll" /\ UNCHANGED <<browser, thrown, visits>>
            ELSE Abort("home_nav") /\ visits' = SetLast(visits, "state", "failed")
    /\ UNCHANGED <<args, regs, routeHtmls, discoveredRoutes, routes, routesToVisit, idx, hasCharts,
                   disk, arch, listening>>

\* the scrolling page.evaluate settles
HomeScroll ==
    /\ pc = "home_scroll"
    /\ \E ok \in BOOLEAN :
         /\ Outcome(ok)
         /\ IF ok THEN pc' = "home_probe" /\ UNCHANGED <<browser, thrown, visits>>
            ELSE Abort("home_scroll") /\ visits' = SetLast(visits, "state", "failed")
    /\ UNCHANGED <<args, regs, routeHtmls, discoveredRoutes, routes, routesToVisit, idx, hasCharts,
                   disk, arch, listening>>

\* where the homepage visit goes once charts were found and counted
HomeAfterCharts == "home_delay"

\* waitForSelector('canvas, svg'), then the chart count; both inside one try, so a
\* rejection of the count is taken for a page without charts
HomeProbe ==
    /\ pc = "home_probe"
    /\ \E ok \in BOOLEAN :
         /\ "/" \notin charts => ok
         /\ Outcome(ok)
         /\ hasCharts' = ("/" \in charts /\ ok)
         /\ visits' = SetLast(visits, "probe", "/" \in charts)
         /\ pc' = IF "/" \in charts /\ ok THEN HomeAfterCharts ELSE "home_settle"
    /\ UNCHANGED <<args, regs, routeHtmls, discoveredRoutes, routes, routesToVisit, idx, disk, arch,
                   browser, listening, thrown>>

\* what no step of a visit changes
outside == <<args, regs, discoveredRoutes, routes, routesToVisit, disk, arch, browser, listening, thrown>>

\* promiseToWait(1000) after the chart count
HomeDelay ==
    /\ pc = "home_delay"
    /\ visits' = SetLast(visits, "delay", 1000)
    /\ pc' = "home_capture"
    /\ UNCHANGED <<outside, routeHtmls, idx, hasCharts, faultBudget>>

\* config.scraping.timeouts
homepageTimeout == 500

routeTimeout == 200

finalTimeout == 0

\* promiseToWait(config.scraping.timeouts.homepage)
HomeSettle ==
    /\ pc = "home_settle"
    /\ visits' = SetLast(visits, "delay", homepageTimeout)
    /\ pc' = "home_capture"
    /\ UNCHANGED <<outside, routeHtmls, idx, hasCharts, faultBudget>>

\* page.content() and routeHtmls.set('/', homepageHtml); page.evaluate of the discovery is called
HomeCapture ==
    /\ pc = "home_capture"
    /\ \E ok \in BOOLEAN :
         /\ Outcome(ok)
         /\ IF ok
            THEN /\ routeHtmls' = MapSet(routeHtmls, "route", [route |-> "/", html |-> RenderedHtml("/")])
                 /\ visits' = SetLast(visits, "state", "captured")
                 /\ pc' = "discover"
                 /\ UNCHANGED <<browser, thrown>>
            ELSE /\ Abort("home_capture")
                 /\ visits' = SetLast(visits, "state", "failed")
                 /\ routeHtmls' = routeHtmls
    /\ UNCHANGED <<args, regs, discoveredRoutes, routes, routesToVisit, idx, hasCharts, disk, arch,
                   listening>>

\* the discovery returns (195-254); bundle scan, merge and slice follow without a
\* suspension (258-308), and page.goto of the first route is called
Discover ==
    /\ pc = "discover"
    /\ \E ok \in BOOLEAN :
         /\ Outcome(ok)
         /\ IF ok
            THEN /\ routes' = MergeRoutes(DomRoutes(anchors, scripts, urlToArchive), resources)
                 /\ discoveredRoutes' = discoveredRoutes \cup SeqToSet(routes')
                 /\ routesToVisit' = SliceRoutes(routes')
                 /\ idx' = 1
                 /\ EnterLoop(routesToVisit', 1, visits)
                 /\ UNCHANGED <<browser, thrown>>
            ELSE /\ Abort("discover")
                 /\ UNCHANGED <<routes, discoveredRoutes, routesToVisit, idx, visits>>
    /\ UNCHANGED <<args, regs, routeHtmls, hasCharts, disk, arch, listening>>

AbandonBreak ==
    /\ idx' = idx + 1
    /\ pc' = "final_delay"
    /\ visits' = SetLast(visits, "state", "abandoned")

\* the catch of lines 368-370: the route is abandoned and the loop goes on
Abandon ==
    /\ idx' = idx + 1
    /\ EnterLoop(routesToVisit, idx + 1, SetLast(visits, "state", "abandoned"))

RouteNavFatal ==
    /\ pc = "route_nav"
    /\ \E ok \in BOOLEAN :
         /\ Outcome(ok)
         /\ IF ok THEN pc' = "route_scroll" /\ UNCHANGED <<idx, visits, browser, thrown>>
            ELSE Abort("route_nav") /\ idx' = idx /\ visits' = SetLast(visits, "state", "failed")
    /\ UNCHANGED <<args, regs, discoveredRoutes, routes, routesToVisit, disk, arch, listening,
                   routeHtmls, hasCharts>>

RouteNavNotAwaited ==
    /\ pc = "route_nav"
    /\ idx' = idx + 1
    /\ EnterLoop(routesToVisit, idx + 1, visits)
    /\ UNCHANGED <<outside, routeHtmls, hasCharts, faultBudget>>

\* page.goto(routeUrl) settles
RouteNav ==
    /\ pc = "route_nav"
    /\ \E ok \in BOOLEAN :
         /\ Outcome(ok)
         /\ IF ok THEN pc' = "route_scroll" /\ UNCHANGED <<idx, visits>>
            ELSE Abandon
    /\ UNCHANGED <<outside, routeHtmls, hasCharts>>

\* the scrolling page.evaluate settles
RouteScroll ==
    /\ pc = "route_scroll"
    /\ \E ok \in BOOLEAN :
         /\ Outcome(ok)
         /\ IF ok THEN pc' = "route_probe" /\ UNCHANGED <<idx, visits>>
            ELSE Abandon
    /\ UNCHANGED <<outside, routeHtmls, hasCharts>>

SkipIdle == "route_delay"

\* where a route visit goes once the chart probe has found an element
RouteAfterCharts == "route_idle"

\* waitForSelector('canvas, svg') of a route visit settles; its timeout is swallowed
RouteProbe ==
    /\ pc = "route_probe"
    /\ hasCharts' = (routesToVisit[idx] \in charts)
    /\ visits' = SetLast(visits, "probe", routesToVisit[idx] \in charts)
    /\ pc' = IF routesToVisit[idx] \in charts THEN RouteAfterCharts ELSE "route_settle"
    /\ UNCHANGED <<outside, routeHtmls, idx, faultBudget>>

\* page.waitForNetworkIdle settles: idle reached, or its timeout swallowed
RouteIdle ==
    /\ pc = "route_idle"
    /\ visits' = SetLast(visits, "idleWait", TRUE)
    /\ pc' = "route_delay"
    /\ UNCHANGED <<outside, routeHtmls, idx, hasCharts, faultBudget>>

\* promiseToWait(500)
RouteDelay ==
    /\ pc = "route_delay"
    /\ visits' = SetLast(visits, "delay", 500)
    /\ pc' = "route_capture"
    /\ UNCHANGED <<outside, routeHtmls, idx, hasCharts, faultBudget>>

\* promiseToWait(config.scraping.timeouts.route)
RouteSettle ==
    /\ pc = "route_settle"
    /\ visits' = SetLast(visits, "delay", routeTimeout)
    /\ pc' = "route_capture"
    /\ UNCHANGED <<outside, routeHtmls, idx, hasCharts, faultBudget>>

\* page.content() and routeHtmls.set(route, routeHtml), then the next iteration
RouteCapture ==
    /\ pc = "route_capture"
    /\ \E ok \in BOOLEAN :
         /\ Outcome(ok)
         /\ IF ok
            THEN /\ routeHtmls' = MapSet(routeHtmls, "route",
                                         [route |-> routesToVisit[idx],
                                          html |-> RenderedHtml(routesToVisit[idx])])
                 /\ idx' = idx + 1
                 /\ EnterLoop(routesToVisit, idx + 1, SetLast(visits, "state", "captured"))
            ELSE /\ Abandon
                 /\ routeHtmls' = routeHtmls
    /\ UNCHANGED <<outside, hasCharts>>

\* promiseToWait(config.scraping.timeouts.final), then browser.close() is called
\* materialization is started while the browser is still open
FinalDelayThenSave ==
    /\ pc = "final_delay"
    /\ pc' = "save_resources"
    /\ UNCHANGED <<outside, scrape, faultBudget>>

FinalDelay ==
    /\ pc = "final_delay"
    /\ pc' = "close"
    /\ UNCHANGED <<outside, scrape, faultBudget>>

\* browser.close() settles
CloseBrowser ==
    /\ pc = "close"
    /\ browser' = "closed"
    /\ pc' = "save_resources"
    /\ UNCHANGED <<args, regs, scrape, disk, arch, faultBudget, listening, thrown>>

\* saveResourcesToDisk(resources, downloadDir)
SaveResourcesToDisk ==
    /\ pc = "save_resources"
    /\ \E faults \in FaultChoices(resources, downloadDir, faultBudget) :
         /\ disk' = SaveResources(disk, resources, downloadDir, faults)
         /\ warnings' = warnings \cup RewriteWarnings(disk', faults, downloadDir)
         /\ faultBudget' = faultBudget - Cardinality(faults)
    /\ pc' = "save_html"
    /\ UNCHANGED <<args, resources, received, respBudget, scrape, arch, browser, listening,
                   thrown>>

\* saveRouteHTMLFiles(routeHtmls, downloadDir), then return downloadDir
SaveRouteHTMLFiles ==
    /\ pc = "save_html"
    /\ disk' = SaveRouteHtmls(disk, routeHtmls, downloadDir)
    /\ downloadFolder' = downloadDir
    /\ pc' = "upload"
    /\ UNCHANGED <<args, regs, scrape, htmlHash, manifestId, arnsInfo, db, uploads, result,
                   faultBudget, browser, listening, thrown>>

(***************************************************************************)
(* The response listener as actions: the synchronous part of the handler,  *)
(* and the settling of response.buffer().                                  *)
(***************************************************************************)
\* responses of the archived site and of third parties
BundleFirst == [url |-> "https://p1.lovable.app/m.js", type |-> "script", buffer |-> "r=[{path:\"/c\"}]"]

BundleLater == [url |-> "https://p1.lovable.app/m.js", type |-> "script", buffer |-> "go(\"/d\")"]

HomeDocument == [url |-> "https://p1.lovable.app/", type |-> "document", buffer |-> "<html></html>"]

RouteDocument == [url |-> "https://p1.lovable.app/x", type |-> "document", buffer |-> "<html>x</html>"]

NestedScript == [url |-> "https://p1.lovable.app/x/y.js", type |-> "script", buffer |-> "y()"]

DirectoryStyle == [url |-> "https://p1.lovable.app/d/", type |-> "fetch", buffer |-> "{}"]

DeepScript == [url |-> "https://p1.lovable.app/x/y/z.js", type |-> "script", buffer |-> "z()"]

SiblingScript == [url |-> "https://cdn.lovable.app/s.js", type |-> "script", buffer |-> "s()"]

CdnStyle == [url |-> "https://cdn.io/f.css", type |-> "stylesheet", buffer |-> "@import 'https://cdn.io/g.css'"]

TrackerScript == [url |-> "https://www.hotjar.com/h.js", type |-> "script", buffer |-> "hj()"]

DataImage == [url |-> "data:image/png;base64,AA", type |-> "image", buffer |-> "AA"]

\* a path of 49 characters and one of 50
LongRoute == "/abcdefghijabcdefghijabcdefghijabcdefghijabcdefgh"

TooLongRoute == LongRoute \o "i"

\* a bundle that names reserved paths, a path the DOM links to, one path twice, and two
\* long paths
ReservedBundle ==
    [url |-> "https://p1.lovable.app/r.js", type |-> "script",
     buffer |-> "go(\"/assets\");x={path:\"/api/v1\"};y={to:\"/assetsMap\"};go(\"/x\");go(\"/e\");go(\"/e\");go(\""
                \o TooLongRoute \o "\");go(\"" \o LongRoute \o "\")"]

\* lines 52-97: a response arrives; unless the handler returns early, response.buffer() is
\* called. received keeps every response, a document with the route set its handler saw
Response ==
    /\ listening /\ browser = "open" /\ pc \in PageSteps
    /\ respBudget > 0
    /\ respBudget' = respBudget - 1
    /\ \E k \in served :
         received' = Append(received,
                            [url |-> k.url, type |-> k.type, buffer |-> k.buffer,
                             known |-> IF k.type = "document" THEN discoveredRoutes ELSE {},
                             visit |-> IF ListenerSkips(k.url, k.type, discoveredRoutes)
                                       THEN 0 ELSE Len(visits),
                             scanned |-> ~ListenerSkips(k.url, k.type, discoveredRoutes) /\ idx > 0,
                             msg |-> "",
                             state |-> IF ListenerSkips(k.url, k.type, discoveredRoutes)
                                       THEN "skipped" ELSE "pending"])
    /\ UNCHANGED <<args, resources, warnings, scrape, disk, arch, faultBudget, pc, browser, listening,
                   thrown>>

\* lines 98-106: response.buffer() resolves and resources.set(url, ...) runs
ReadResolves ==
    /\ browser = "open"
    /\ \E i \in 1..Len(received) :
         /\ received[i].state = "pending"
         /\ received' = [received EXCEPT ![i].state = "resolved", ![i].visit = 0,
                                      ![i].scanned = FALSE]
         /\ resources' = MapSet(resources, "url", [url |-> received[i].url,
                                                   buffer |-> received[i].buffer,
                                                   type |-> received[i].type])
    /\ UNCHANGED <<args, warnings, respBudget, scrape, disk, arch, faultBudget, pc, browser,
                   listening, thrown>>

\* lines 107-124: response.buffer() rejects; only a message outside benignErrors is warned about
ReadRejects ==
    /\ \E i \in 1..Len(received), msg \in ReadErrors :
         /\ received[i].state = "pending"
         /\ received' = [received EXCEPT ![i].state = "rejected", ![i].msg = msg,
                                      ![i].visit = 0, ![i].scanned = FALSE]
         /\ warnings' = IF \E b \in benignErrors : Includes(msg, b) THEN warnings
                        ELSE warnings \cup {[url |-> received[i].url, msg |-> msg]}
    /\ UNCHANGED <<args, resources, respBudget, scrape, disk, arch, faultBudget, pc, browser,
                   listening, thrown>>

(***************************************************************************)
(* runArchiver, archiver.js 634-716, with uploadFolderToArweave,           *)
(* setArNSUndername, saveMappingToDB and logFailedArchive as its steps.    *)
(***************************************************************************)
\* what runArchiver's own steps leave alone
scraped == <<args, regs, scrape, browser, listening, thrown>>

\* getHTMLHash resolves with the digest, or with null when the fetch failed
\* how the request of fetchHTML ends: a 200 response read to its end, the request's
\* 'error' event, its 'timeout' event, a response with another status
FetchOutcomes == {"ok", "error", "timeout", "status"}

\* the HTML the server of url answers with, in the given state of the project
ServedHtml(url, version) == "<html " \o url \o " v" \o version \o ">"

\* fetchHTML (database.js 341-375): the settled promise
FetchHTML(url, outcome, version) ==
    IF outcome = "ok" THEN [rejected |-> FALSE, data |-> ServedHtml(url, version)]
    ELSE [rejected |-> TRUE, data |-> ""]

\* computeHash (380-382): the digest stands for its content
computeHash(content) == "sha256(" \o content \o ")"

HashOrNull(fetched) == IF fetched.rejected THEN Null ELSE computeHash(fetched.data)

\* getHTMLHash (388-404): the hash of the fetched HTML, null when the fetch rejected
GetHTMLHash(url, outcome, version) == HashOrNull(FetchHTML(url, outcome, version))

\* the catch of lines 647-650 is never entered, getHTMLHash does not reject
ComputeHashFatal ==
    /\ pc = "hash"
    /\ \E o \in FetchOutcomes :
         /\ Outcome(o = "ok")
         /\ htmlHash' = GetHTMLHash(urlToArchive, o, "1")
         /\ pc' = IF o = "ok" THEN "scrape" ELSE "done"
         /\ result' = IF o = "ok" THEN result ELSE "archiveerror"
    /\ UNCHANGED <<scraped, disk, downloadFolder, manifestId, arnsInfo, db, uploads>>

\* STEP 0 of runArchiver (642-650)
ComputeHash ==
    /\ pc = "hash"
    /\ \E o \in FetchOutcomes :
         /\ Outcome(o = "ok")
         /\ htmlHash' = GetHTMLHash(urlToArchive, o, "1")
    /\ pc' = "scrape"
    /\ UNCHANGED <<scraped, disk, downloadFolder, manifestId, arnsInfo, db, uploads, result>>

\* logFailedArchive: INSERT OR REPLACE of a 'failed' row, or a rejection that is only warned about
LogFailed(ok) ==
    db' = IF ok THEN <<[manifest_id |-> "failed", html_hash |-> htmlHash, arns_url |-> Null,
                        status |-> "failed"]>>
          ELSE db

\* the catch of lines 657-667
ScrapeFailed ==
    /\ pc = "scrape_catch"
    /\ \E ok \in BOOLEAN : Outcome(ok) /\ LogFailed(ok)
    /\ result' = "archiveerror"
    /\ pc' = "done"
    /\ UNCHANGED <<scraped, disk, htmlHash, downloadFolder, manifestId, arnsInfo, uploads>>

UploadLeavesFolderOnError ==
    /\ pc = "upload"
    /\ uploads' = uploads + 1
    /\ \E ok \in BOOLEAN :
         /\ Outcome(ok)
         /\ manifestId' = IF ok THEN "manifest1" ELSE manifestId
         /\ pc' = IF ok THEN "arns" ELSE "upload_catch"
         /\ disk' = IF ok /\ ExistsSync(disk, downloadFolder) THEN RmSync(disk, downloadFolder)
                    ELSE disk
    /\ UNCHANGED <<scraped, htmlHash, downloadFolder, arnsInfo, db, result>>

\* uploadFolderToArweave settles; its finally removes the folder
Upload ==
    /\ pc = "upload"
    /\ uploads' = uploads + 1
    /\ \E ok \in BOOLEAN :
         /\ Outcome(ok)
         /\ manifestId' = IF ok THEN "manifest1" ELSE manifestId
         /\ pc' = IF ok THEN "arns" ELSE "upload_catch"
    /\ disk' = IF ExistsSync(disk, downloadFolder) THEN RmSync(disk, downloadFolder) ELSE disk
    /\ UNCHANGED <<scraped, htmlHash, downloadFolder, arnsInfo, db, result>>

\* the catch of lines 680-690
UploadFailed ==
    /\ pc = "upload_catch"
    /\ \E ok \in BOOLEAN : Outcome(ok) /\ LogFailed(ok)
    /\ result' = "arerror"
    /\ pc' = "done"
    /\ UNCHANGED <<scraped, disk, htmlHash, downloadFolder, manifestId, arnsInfo, uploads>>

\* config.arns.name
arnsName == "forever-loved"

\* the longest name an undername may have (arns.js 70)
MaxNameLength == 63

\* how the environment of setArNSUndername is: the record is set, loadArNSWallet
\* returns null, getANT or ant.setRecord rejects
ArnsOutcomes == {"set", "nowallet", "sdkerror"}

fullName(undername) == undername \o "_" \o arnsName

\* setArNSUndername (arns.js 53-102): null without a wallet (55-59), null from its own catch
\* when the name is too long (69-72) or the SDK rejected (97-101), the record otherwise
setArNSUndername(id, outcome) ==
    IF outcome = "nowallet" THEN NoValue
    ELSE IF Len(fullName(id)) > MaxNameLength \/ outcome = "sdkerror" THEN NoValue
    ELSE <<[undername |-> fullName(id),
            arnsUrl |-> "https://" \o fullName(id) \o ".ar.io",
            txId |-> "arnstx1"]>>

SetArNSRethrows ==
    /\ pc = "arns"
    /\ \E o \in ArnsOutcomes :
         /\ Outcome(o = "set")
         /\ arnsInfo' = setArNSUndername(projectID, o)
    /\ pc' = IF arnsInfo' = NoValue THEN "done" ELSE "db_save"
    /\ result' = IF arnsInfo' = NoValue THEN "arnserror" ELSE result
    /\ UNCHANGED <<scraped, disk, htmlHash, downloadFolder, manifestId, db, uploads>>

\* STEP 3 of runArchiver (692-699): arnsInfo is what setArNSUndername resolved with
SetArNS ==
    /\ pc = "arns"
    /\ \E o \in ArnsOutcomes :
         /\ Outcome(o = "set")
         /\ arnsInfo' = setArNSUndername(projectID, o)
    /\ pc' = "db_save"
    /\ UNCHANGED <<scraped, disk, htmlHash, downloadFolder, manifestId, db, uploads, result>>

\* saveMappingToDB settles; a rejection is logged and the archive still resolves
SaveMapping ==
    /\ pc = "db_save"
    /\ \E ok \in BOOLEAN :
         /\ Outcome(ok)
         /\ db' = IF ok THEN <<[manifest_id |-> manifestId, html_hash |-> htmlHash,
                                arns_url |-> IF arnsInfo = NoValue THEN Null ELSE arnsInfo[1].arnsUrl,
                                status |-> "success"]>>
                  ELSE db
    /\ result' = "resolved"
    /\ pc' = "done"
    /\ UNCHANGED <<scraped, disk, htmlHash, downloadFolder, manifestId, arnsInfo, uploads>>

(***************************************************************************)
(* Specifications.                                                         *)
(***************************************************************************)
MaxFaults == 1

MaxResponses == 2

\* the number of anchors of the large site beyond config.scraping.maxRoutes
ExtraAnchors == 2

DigitSeq == "0123456789"

\* the href of the n-th anchor of the large site, n < 100
ManyHref(n) == "/r" \o CharAt(DigitSeq, (n \div 10) + 1) \o CharAt(DigitSeq, (n % 10) + 1)

\* a file of the working directory of the server: the path of the staged /tmp/p1/x
\* without its leading separator, resolved against cwd
LocalFile == Abs("tmp/p1/x")

\* a subdomain of 50 characters: with "_forever-loved" the undername has 64
LongProjectID == "p0123456789012345678901234567890123456789012345678"

\* calls of runArchiver with the homepage each call meets (the anchors and the inline scripts
\* of the rendered DOM, the routes that show charts), and what the environment may do during
\* the call: the new URL format, the old URL format, sites whose responses arrive during
\* the run (bundles, documents, nested and cross-domain resources, a bundle with reserved
\* and long paths, a file below a file while the working directory holds a file of the
\* same relative path), a site whose anchors differ by a trailing slash or hold "..",
\* a projectID too long for an undername, a projectID directScrape refuses, and a site
\* with more anchors than maxRoutes
Scenarios ==
    {[targetUrl |-> "https://p1.lovable.app/", projectID |-> "p1", isOldFormat |-> FALSE,
      anchors |-> <<"/about?x=1#y", "/b">>, scripts |-> <<"r={path:\"/c\"}">>,
      charts |-> {"/", "/b"}, served |-> {}, faults |-> MaxFaults, resps |-> 0, local |-> {}],
     [targetUrl |-> "https://lovable.dev/projects/u1", projectID |-> "u1", isOldFormat |-> TRUE,
      anchors |-> <<"/about">>, scripts |-> <<>>,
      charts |-> {}, served |-> {}, faults |-> MaxFaults, resps |-> 0, local |-> {}],
     [targetUrl |-> "https://p1.lovable.app/", projectID |-> "p1", isOldFormat |-> FALSE,
      anchors |-> <<"/x">>, scripts |-> <<>>,
      charts |-> {}, served |-> {BundleFirst, BundleLater}, faults |-> 0, resps |-> MaxResponses, local |-> {}],
     [targetUrl |-> "https://p1.lovable.app/", projectID |-> "p1", isOldFormat |-> FALSE,
      anchors |-> <<"/x">>, scripts |-> <<>>,
      charts |-> {}, served |-> {HomeDocument, RouteDocument, TrackerScript, DataImage},
      faults |-> 0, resps |-> MaxResponses, local |-> {}],
     [targetUrl |-> "https://p1.lovable.app/", projectID |-> "p1", isOldFormat |-> FALSE,
      anchors |-> <<>>, scripts |-> <<>>,
      charts |-> {}, served |-> {RouteDocument, NestedScript, DirectoryStyle},
      faults |-> 0, resps |-> MaxResponses, local |-> {}],
     [targetUrl |-> "https://p1.lovable.app/", projectID |-> "p1", isOldFormat |-> FALSE,
      anchors |-> <<>>, scripts |-> <<>>,
      charts |-> {}, served |-> {CdnStyle, SiblingScript}, faults |-> 0, resps |-> MaxResponses, local |-> {}],
     [targetUrl |-> "https://p1.lovable.app/", projectID |-> "p1", isOldFormat |-> FALSE,
      anchors |-> <<"/x", "/api">>, scripts |-> <<>>,
      charts |-> {}, served |-> {ReservedBundle}, faults |-> 0, resps |-> 1, local |-> {}],
     [targetUrl |-> "https://p1.lovable.app/", projectID |-> "p1", isOldFormat |-> FALSE,
      anchors |-> <<>>, scripts |-> <<>>,
      charts |-> {}, served |-> {RouteDocument, DeepScript}, faults |-> 0, resps |-> 2,
      local |-> {LocalFile}],
     [targetUrl |-> "https://p1.lovable.app/", projectID |-> "p1", isOldFormat |-> FALSE,
      anchors |-> <<"/a", "/a/", "/../q">>, scripts |-> <<>>,
      charts |-> {}, served |-> {}, faults |-> 0, resps |-> 0, local |-> {}],
     [targetUrl |-> "https://" \o LongProjectID \o ".lovable.app/", projectID |-> LongProjectID,
      isOldFormat |-> FALSE, anchors |-> <<>>, scripts |-> <<>>,
      charts |-> {}, served |-> {}, faults |-> MaxFaults, resps |-> 0, local |-> {}],
     [targetUrl |-> "https://p1.lovable.app/", projectID |-> "..", isOldFormat |-> FALSE,
      anchors |-> <<>>, scripts |-> <<>>,
      charts |-> {}, served |-> {}, faults |-> 0, resps |-> 0, local |-> {}],
     [targetUrl |-> "https://p1.lovable.app/", projectID |-> "p1", isOldFormat |-> FALSE,
      anchors |-> [n \in 1..(maxRoutes + ExtraAnchors) |-> ManyHref(n)], scripts |-> <<>>,
      charts |-> {}, served |-> {}, faults |-> 0, resps |-> 0, local |-> {}]}

\* the longest href of the one-anchor sites, counted after its leading "/"
MaxHrefLen == 3

HrefAlphabet == {"/", "a", "?", "#", ":"}

RECURSIVE Words(_)
Words(n) == IF n = 0 THEN {""} ELSE {w \o c : w \in Words(n - 1), c \in HrefAlphabet}

\* the root-relative and protocol-relative hrefs up to MaxHrefLen, and the href of a link
\* with a query string and a fragment
Hrefs == UNION {{"/" \o w : w \in Words(n)} : n \in 0..MaxHrefLen} \cup {"/about?x=1#y"}

\* sites whose homepage has one anchor, no inline script and serves no bundle
LinkScenarios ==
    {[targetUrl |-> "https://p1.lovable.app/", projectID |-> "p1", isOldFormat |-> FALSE,
      anchors |-> <<h>>, scripts |-> <<>>,
      charts |-> {}, served |-> {}, faults |-> 0, resps |-> 0, local |-> {}] : h \in Hrefs}

\* the filesystem when runArchiver is called: /tmp, and the files of the working directory
DiskWith(local) ==
    [dirs |-> {"/tmp"} \cup UNION {SeqToSet(Ancestry(PathDirname(f))) : f \in local},
     files |-> [f \in local |-> "local"]]

\* the state when runArchiver is called
InitWith(scenarios) ==
    /\ \E sc \in scenarios :
         /\ targetUrl = sc.targetUrl
         /\ projectID = sc.projectID
         /\ isOldFormat = sc.isOldFormat
         /\ anchors = sc.anchors
         /\ scripts = sc.scripts
         /\ charts = sc.charts
         /\ served = sc.served
         /\ faultBudget = sc.faults
         /\ respBudget = sc.resps
         /\ disk = DiskWith(sc.local)
    /\ NoService
    /\ pc = "hash"
    /\ browser = "none"
    /\ listening = FALSE
    /\ resources = <<>>
    /\ received = <<>>
    /\ warnings = {}
    /\ routeHtmls = <<>>
    /\ discoveredRoutes = {}
    /\ routes = <<>>
    /\ routesToVisit = <<>>
    /\ idx = 0
    /\ hasCharts = FALSE
    /\ visits = <<>>
    /\ thrown = ""
    /\ htmlHash = Null
    /\ downloadFolder = Null
    /\ manifestId = Null
    /\ arnsInfo = NoValue
    /\ db = NoValue
    /\ uploads = 0
    /\ result = "running"

Init == InitWith(Scenarios \cup LinkScenarios)

Next ==
    \/ ComputeHash
    \/ StartScrape
    \/ Launch
    \/ NewPage
    \/ HomeNav
    \/ HomeScroll
    \/ HomeProbe
    \/ HomeDelay
    \/ HomeSettle
    \/ HomeCapture
    \/ Discover
    \/ RouteNav
    \/ RouteScroll
    \/ RouteProbe
    \/ RouteIdle
    \/ RouteDelay
    \/ RouteSettle
    \/ RouteCapture
    \/ FinalDelay
    \/ CloseBrowser
    \/ SaveResourcesToDisk
    \/ SaveRouteHTMLFiles
    \/ Upload
    \/ UploadFailed
    \/ ScrapeFailed
    \/ SetArNS
    \/ SaveMapping
    \/ Response
    \/ ReadResolves
    \/ ReadRejects

Spec == Init /\ [][Next]_vars

(***************************************************************************)
(* Properties of directScrape and runArchiver.                             *)
(***************************************************************************)
\* directScrape has rejected, to the catch of runArchiver or beyond it
Rejected == pc = "scrape_catch" \/ (pc = "done" /\ result = "archiveerror")

\* directScrape has returned downloadDir
Returned == pc \in {"upload", "upload_catch", "arns", "db_save"} \/ (pc = "done" /\ result # "archiveerror")

\* the route loop has been left
AfterLoop == pc \in {"final_delay", "close", "save_resources", "save_html"} \/ Returned

Abandoned == {i \in 1..Len(visits) : visits[i].state = "abandoned"}

\* C1: once directScrape has returned or rejected, and already while it writes the files,
\* no browser it launched is still open, whichever step failed
C1_BrowserClosed ==
    (Rejected \/ Returned \/ pc \in {"save_resources", "save_html"}) => browser # "open"

\* the homepage navigation failed after the launch and the rejection reached runArchiver
C1_Witness == pc = "scrape_catch" /\ thrown = "home_nav" /\ browser = "closed"

\* C2: a failed homepage navigation rejects directScrape: no route visit was started, no
\* markup and no file exists, and runArchiver ends with archiveerror without an upload
C2_HomeNavFatal ==
    thrown = "home_nav" =>
        /\ Rejected
        /\ Len(visits) = 1
        /\ routeHtmls = <<>>
        /\ DOMAIN disk.files = {}
        /\ downloadFolder = Null
        /\ uploads = 0

C2_Witness == thrown = "home_nav" /\ pc = "done" /\ result = "archiveerror" /\ uploads = 0

\* C3: an abandoned route visit has no routeHtmls entry, does not reject the run, and
\* once the loop is left every route of the visit list has been visited in order; the
\* run then returns the staging folder
C3_OnlyRouteAbandoned ==
    \A i \in Abandoned :
        /\ i > 1
        /\ ~Rejected
        /\ thrown = ""
        /\ visits[i].route \notin MapKeys(routeHtmls, "route")
        /\ AfterLoop => /\ Len(visits) = 1 + Len(routesToVisit)
                        /\ \A k \in 1..Len(routesToVisit) : visits[k + 1].route = routesToVisit[k]
        /\ Returned => downloadFolder = downloadDir

\* a route was abandoned, a later route was captured, and directScrape returned
C3_Witness ==
    /\ pc = "upload"
    /\ \E i \in Abandoned : \E j \in (i + 1)..Len(visits) : visits[j].state = "captured"

FatalSteps == {"validate", "launch", "new_page", "home_nav", "home_scroll", "home_capture", "discover"}

C5_Sequential ==
    /\ Cardinality({i \in 1..Len(visits) : visits[i].state = "running"}) <= 1
    /\ \A i \in 1..(Len(visits) - 1) : visits[i].state \in {"captured", "abandoned"}

\* the third route is being visited after a capture and an abandonment
C5_Witness ==
    /\ Len(visits) >= 4
    /\ visits[Len(visits)].state = "running"
    /\ \E i, j \in 2..(Len(visits) - 1) : visits[i].state = "captured" /\ visits[j].state = "abandoned"

\* C6 as stated: every captured visit, the homepage included, waited for network idle
\* exactly when its chart probe found an element
C6_IdleIffProbe ==
    \A i \in 1..Len(visits) : visits[i].state = "captured" => visits[i].idleWait = visits[i].probe

\* C6 amended: a captured route visit waited for network idle exactly when its probe found
\* an element, then 500 ms, else config.scraping.timeouts.route; the homepage visit never
\* waits for network idle: 1000 ms when its probe and chart count succeeded, else
\* config.scraping.timeouts.homepage
C6_RouteIdleIffProbe ==
    \A i \in 1..Len(visits) : visits[i].state = "captured" =>
        IF i = 1
        THEN /\ ~visits[i].idleWait
             /\ visits[i].delay \in {1000, homepageTimeout}
             /\ visits[i].delay = 1000 => visits[i].probe
             /\ ~visits[i].probe => visits[i].delay = homepageTimeout
        ELSE /\ visits[i].idleWait = visits[i].probe
             /\ visits[i].delay = IF visits[i].probe THEN 500 ELSE routeTimeout

\* a homepage with charts and a route with charts were both captured, and a route without
C6_Witness ==
    /\ Len(visits) >= 3
    /\ visits[1].state = "captured" /\ visits[1].probe /\ visits[1].delay = 1000
    /\ \E i, j \in 2..Len(visits) :
         /\ visits[i].state = "captured" /\ visits[i].probe /\ visits[i].idleWait
         /\ visits[j].state = "captured" /\ ~visits[j].probe /\ ~visits[j].idleWait

\* C7: when two responses for one URL with different payloads have both been read, the
\* registry holds the payload of the later response, and so does the file written for it
C7_LaterPayloadWins ==
    \A i, j \in 1..Len(received) :
        (/\ i < j
         /\ received[i].url = received[j].url
         /\ received[i].buffer # received[j].buffer
         /\ received[i].state = "resolved"
         /\ received[j].state = "resolved") =>
            /\ MapGet(resources, "url", received[j].url).buffer = received[j].buffer
            /\ pc = "save_html" =>
                 /\ PathJoin(downloadDir, ResourceFilePath(received[j].url)) \in DOMAIN disk.files
                 /\ disk.files[PathJoin(downloadDir, ResourceFilePath(received[j].url))]
                      = received[j].buffer

IsPrefix(p, q) == Len(p) <= Len(q) /\ SubSeq(q, 1, Len(p)) = p

\* C8: the route visits are the first min(N, maxRoutes) routes of the discovered list,
\* one visit each and in that order; the list has no duplicates and puts the routes of
\* the DOM before those only a bundle has; after the loop none is missing and none added
C8_FirstRoutesVisited ==
    /\ Len(visits) - 1 <= Min(Len(routes), maxRoutes)
    /\ \A i \in 2..Len(visits) : visits[i].route = routes[i - 1]
    /\ \A i, j \in 1..Len(routes) : routes[i] = routes[j] => i = j
    /\ idx >= 1 => IsPrefix(DomRoutes(anchors, scripts, urlToArchive), routes)
    /\ (AfterLoop /\ idx >= 1) => Len(visits) - 1 = Min(Len(routes), maxRoutes)

\* more routes than maxRoutes were discovered and directScrape returned
C8_Witness == pc = "upload" /\ Len(routes) > maxRoutes /\ Len(visits) = maxRoutes + 1

\* C9: no discovered route contains a query string, a fragment, ':' or '*'
C9_RoutesNormalized ==
    \A i \in 1..Len(routes) : \A c \in {"?", "#", ":", "*"} : ~Includes(routes[i], c)

\* the homepage has one anchor with a root-relative href, no inline script, and no
\* response was received; the discovery has returned
OneLink ==
    /\ Len(anchors) = 1
    /\ StartsWith(anchors[1], "/") /\ ~StartsWith(anchors[1], "//")
    /\ scripts = <<>>
    /\ received = <<>>
    /\ idx >= 1

\* h up to its first '?' or '#'
WithoutQueryAndFragment(h) ==
    IF \E i \in 1..Len(h) : CharAt(h, i) \in {"?", "#"}
    THEN SubSeq(h, 1, Least({i \in 1..Len(h) : CharAt(h, i) \in {"?", "#"}}) - 1)
    ELSE h

\* C10 as stated: one root-relative anchor h yields exactly the route h without its
\* query string and fragment
C10_OneLinkOneRoute == OneLink => routes = <<WithoutQueryAndFragment(anchors[1])>>

\* C10 amended: one root-relative anchor h yields exactly the route h without its query
\* string and fragment, unless that is "/", which yields no route; "/about?x=1#y"
\* yields "/about" alone
C10_OneLinkRoute ==
    /\ OneLink =>
         routes = IF WithoutQueryAndFragment(anchors[1]) = "/" THEN <<>>
                  ELSE <<WithoutQueryAndFragment(anchors[1])>>
    /\ (OneLink /\ anchors[1] = "/about?x=1#y") => routes = <<"/about">>

\* the link with a query string and a fragment was discovered and the run has ended
C10_Witness == OneLink /\ anchors[1] = "/about?x=1#y" /\ routes = <<"/about">> /\ pc = "done"

\* the registry entry e was stored by the read of response r
StoredBy(e, r) ==
    r.state = "resolved" /\ r.url = e.url /\ r.buffer = e.buffer /\ r.type = e.type

HttpScheme(u) == StartsWith(u, "http://") \/ StartsWith(u, "https://")

OnBlocklist(u) == \E ah \in analyticsHosts : Includes(UrlHostname(u), ah)

\* C11: every registry entry was stored by a response with an http or https URL whose
\* hostname is not on the analytics blocklist and which, if a document, had a path
\* outside the discovered-route set its handler saw; that set holds "/" from the start
C11_RegistryFiltered ==
    /\ \A i \in 1..Len(resources) : \E j \in 1..Len(received) :
         /\ StoredBy(resources[i], received[j])
         /\ HttpScheme(received[j].url)
         /\ ~OnBlocklist(received[j].url)
         /\ received[j].type = "document" => UrlPathname(received[j].url) \notin received[j].known
    /\ \A j \in 1..Len(received) : received[j].type = "document" => "/" \in received[j].known

\* a route document was ignored once its route was discovered, beside a stored resource
C11_Witness ==
    /\ resources # <<>>
    /\ \E j \in 1..Len(received) :
         /\ received[j].state = "skipped"
         /\ received[j].type = "document"
         /\ UrlPathname(received[j].url) = "/x"

\* the rejections of response.buffer() the source comments call harmless
BenignReadErrors ==
    {"No data found for resource with given identifier",
     "Response body is unavailable for redirect responses",
     "Request content was evicted from inspector cache"}

ReadFails ==
    \E i \in 1..Len(received) : received[i].state = "pending" /\ received'[i].state = "rejected"

\* C12: a warning exists for a rejected read exactly when its message is none of the benign
\* ones, and the step at which a read is rejected changes nothing of the run but the log
C12_BenignNotWarned ==
    /\ [](\A j \in 1..Len(received) : received[j].state = "rejected" =>
             ([url |-> received[j].url, msg |-> received[j].msg] \in warnings
                <=> received[j].msg \notin BenignReadErrors))
    /\ [](\A w \in warnings : w.msg \notin BenignReadErrors)
    /\ [][ReadFails => UNCHANGED <<pc, thrown, browser, listening, resources, scrape, disk, arch>>]_vars

\* a benign and an unrecognized rejection happened, and the run went on to return
C12_Witness ==
    /\ pc = "upload"
    /\ \E i, j \in 1..Len(received) :
         /\ received[i].state = "rejected" /\ received[i].msg \in BenignReadErrors
         /\ received[j].state = "rejected" /\ received[j].msg \notin BenignReadErrors
         /\ warnings = {[url |-> received[j].url, msg |-> received[j].msg]}

\* <downloadDir>/<route>/index.html, index.html of the folder itself for "/"
RouteFile(route) == PathJoin(downloadDir, PathJoin(route, "index.html"))

\* C13: once saveRouteHTMLFiles has returned, every routeHtmls entry has its file
\* <route>/index.html in the staging folder, holding the rewritten markup of the entry
C13_RouteFilesWritten ==
    pc = "upload" =>
        \A i \in 1..Len(routeHtmls) :
            /\ RouteFile(routeHtmls[i].route) \in DOMAIN disk.files
            /\ disk.files[RouteFile(routeHtmls[i].route)] = RewriteHtml(routeHtmls[i].html)

\* where saveResourcesToDisk puts the registry entry e
StagedAt(e) == PathJoin(downloadDir, ResourceFilePath(e.url))

\* the file of registry entry a occupies the name of a directory the file of entry b needs
Blocks(a, b) == StartsWith(StagedAt(b), StagedAt(a) \o "/")

\* C14: once saveResourcesToDisk has returned, a resource whose directory was occupied by
\* the file of an earlier resource is on disk with its payload, its directory replacing the
\* blocking file, and no path is both a file and a directory
C14_BlockingFileReplaced ==
    pc = "save_html" =>
        /\ \A i, j \in 1..Len(resources) :
             (i < j /\ Blocks(resources[i], resources[j])) =>
                 /\ StagedAt(resources[i]) \notin DOMAIN disk.files
                 /\ StagedAt(resources[i]) \in disk.dirs
                 /\ StagedAt(resources[j]) \in DOMAIN disk.files
                 /\ disk.files[StagedAt(resources[j])] = RewriteScript(resources[j].buffer)
        /\ disk.dirs \cap DOMAIN disk.files = {}

\* what saveResourcesToDisk leaves in the file of entry e
Staged(e) == IF IsRewritten(StagedAt(e)) THEN RewriteScript(e.buffer) ELSE e.buffer

\* no other registry entry wants the path of entry j, a directory above it or a file below it
Unhindered(j) ==
    \A i \in 1..Len(resources) \ {j} :
        /\ StagedAt(resources[i]) # StagedAt(resources[j])
        /\ ~Blocks(resources[i], resources[j])
        /\ ~Blocks(resources[j], resources[i])

Origin(u) == SubSeq(u, 1, AuthorityStart(u) - 1) \o UrlHost(u)

PathOrIndex(p) == IF p = "/" THEN "/index.html" ELSE p

WithoutEndSlash(p) == IF Len(p) > 1 /\ EndsWith(p, "/") THEN SubSeq(p, 1, Len(p) - 1) ELSE p

\* the path of C16 for the URL u when own tells the URLs of the archived site
MappedPath(u, own) ==
    IF own THEN PathOrIndex(UrlPathname(u))
    ELSE "/_external/" \o UrlHostname(u) \o WithoutEndSlash(UrlPathname(u))

\* saveResourcesToDisk has returned and the files of the staging directory are the
\* registry entries at path(e)
FilesAt(path(_)) ==
    pc = "save_html" =>
        /\ \A f \in {g \in DOMAIN disk.files : StartsWith(g, downloadDir \o "/")} :
             \E i \in 1..Len(resources) :
             f = downloadDir \o path(resources[i]) /\ disk.files[f] = Staged(resources[i])
        /\ \A j \in 1..Len(resources) :
             (~DiskSkips(resources[j].url) /\ ~EndsWith(StagedAt(resources[j]), "/") /\ Unhindered(j))
                => downloadDir \o path(resources[j]) \in DOMAIN disk.files

OriginPath(e) == MappedPath(e.url, Origin(e.url) = Origin(urlToArchive))

DomainPath(e) == MappedPath(e.url, Includes(UrlHostname(e.url), "lovable.app"))

\* C16 as stated: a resource of the archived site's origin is staged at its URL path,
\* /index.html for the root, and a resource of any other origin at
\* /_external/<hostname>/<path>
C16_PathByOrigin == FilesAt(OriginPath)

\* C16 amended: a resource whose hostname contains lovable.app is staged at its URL path,
\* /index.html for the root, and a resource of any other hostname at
\* /_external/<hostname>/<path>, a trailing slash of the path dropped
C16_PathByDomain == FilesAt(DomainPath)

\* a stylesheet of another domain and a script of another lovable.app host are staged
C16_Witness ==
    /\ pc = "save_html"
    /\ "/tmp/p1/_external/cdn.io/f.css" \in DOMAIN disk.files
    /\ "/tmp/p1/s.js" \in DOMAIN disk.files

(***************************************************************************)
(* The rewrite rules of saveResourcesToDisk (481-513) and of               *)
(* saveRouteHTMLFiles (557-575) over bounded captured texts: the state     *)
(* when browser.close() has settled in a run that captured one response    *)
(* body, or one homepage markup, holding absolute URLs.                    *)
(***************************************************************************)
\* URLs as they occur in captured text: of the archived site with and without a path, of
\* another lovable.app host, of another domain with and without a path, of a host the
\* response listener skips, of a Google host it does not skip, and two local references
SiteUrl == "https://p1.lovable.app/a"

BareSiteUrl == "https://p1.lovable.app"

SiblingUrl == "http://cdn.lovable.app/b"

OtherUrl == "https://c.io/b"

BareOtherUrl == "https://c.io"

TrackerUrl == "https://static.hotjar.com/h"

FontUrl == "https://fonts.googleapis.com/c"

LocalUrl == "/a"

StagedUrl == "/_external/c.io/b"

TextUrls ==
    {SiteUrl, BareSiteUrl, SiblingUrl, OtherUrl, BareOtherUrl, TrackerUrl, FontUrl, LocalUrl,
     StagedUrl}

Delimiters == Quote \cup {Backtick}

\* what stands before and after a delimited URL in script or stylesheet text: an
\* assignment, an import-from with one and with two spaces, a dynamic import without and
\* with a space
Leads ==
    {[pre |-> "x=", post |-> ";"],
     [pre |-> "import y from ", post |-> ";"],
     [pre |-> "import y from  ", post |-> ";"],
     [pre |-> "import(", post |-> ")"],
     [pre |-> "import (", post |-> ")"]}

\* the elements of markup that carry a URL
Tags ==
    {[pre |-> "<a href=", post |-> ">"],
     [pre |-> "<img src=", post |-> ">"],
     [pre |-> "<script src=", post |-> "></script>"]}

Delimited(lead, d, u) == lead.pre \o d \o u \o d \o lead.post

ScriptTexts == {Delimited(l, d, u) : l \in Leads, d \in Delimiters, u \in TextUrls}

MarkupTexts == {Delimited(g, d, u) : g \in Tags, d \in Quote, u \in TextUrls}

\* the longest text made of quotes and URLs alone, in tokens
MaxTokens == 5

Tokens == Quote \cup {SiteUrl, OtherUrl}

RECURSIVE TokenTexts(_)
TokenTexts(n) == IF n = 0 THEN {""} ELSE {w \o c : w \in TokenTexts(n - 1), c \in Tokens}

\* every text of at most MaxTokens quotes and URLs
Chains == UNION {TokenTexts(n) : n \in 0..MaxTokens}

\* the pieces of a colour that wraps a custom property: the wrapper, a name, the two closing
\* parentheses, the separator of a fallback value
ColorTokens == {"rgb(var(--", "a", "))", ", "}

RECURSIVE ColorWords(_)
ColorWords(n) == IF n = 0 THEN {""} ELSE {w \o c : w \in ColorWords(n - 1), c \in ColorTokens}

\* every markup of at most MaxTokens such pieces
ColorTexts == UNION {ColorWords(n) : n \in 0..MaxTokens}

\* URLs of resources of another origin: plain, with a query string, with a port, with a
\* trailing slash
ExternalUrls ==
    {"https://cdn.io/f.js", "https://cdn.io/f.js?v=1", "https://cdn.io:8080/f.js",
     "https://cdn.io/d/"}

\* one captured text: a script, a stylesheet, or the markup of the homepage; or a script
\* of another origin
RewriteInputs ==
    {[url |-> u, type |-> "script", text |-> "f()"] : u \in ExternalUrls} \cup
    {[url |-> "https://p1.lovable.app/t.js", type |-> "script", text |-> t] :
        t \in ScriptTexts \cup Chains}
    \cup {[url |-> "https://p1.lovable.app/t.css", type |-> "stylesheet", text |-> t] :
            t \in ScriptTexts}
    \cup {[url |-> "https://p1.lovable.app/", type |-> "document", text |-> t] :
            t \in MarkupTexts \cup ColorTexts}

\* the state in which saveResourcesToDisk is called (line 389) when the site has no link,
\* the homepage was captured, and the one response of the run was read
InitRewrite ==
    /\ NoService
    /\ \E in \in RewriteInputs :
         /\ served = {[url |-> in.url, type |-> in.type, buffer |-> in.text]}
         /\ resources = IF in.type = "document" THEN <<>>
                        ELSE <<[url |-> in.url, buffer |-> in.text, type |-> in.type]>>
         /\ received = IF in.type = "document" THEN <<>>
                       ELSE <<[url |-> in.url, type |-> in.type, buffer |-> in.text,
                               known |-> {}, visit |-> 0, scanned |-> FALSE, msg |-> "",
                               state |-> "resolved"]>>
         /\ respBudget = IF in.type = "document" THEN 1 ELSE 0
         /\ routeHtmls = <<[route |-> "/",
                            html |-> IF in.type = "document" THEN in.text
                                     ELSE RenderedHtml("/")]>>
    /\ targetUrl = "https://p1.lovable.app/"
    /\ projectID = "p1"
    /\ isOldFormat = FALSE
    /\ anchors = <<>>
    /\ scripts = <<>>
    /\ charts = {}
    /\ faultBudget = MaxFaults
    /\ pc = "save_resources"
    /\ browser = "closed"
    /\ listening = TRUE
    /\ warnings = {}
    /\ discoveredRoutes = {"/"}
    /\ routes = <<>>
    /\ routesToVisit = <<>>
    /\ idx = 1
    /\ hasCharts = FALSE
    /\ visits = <<[route |-> "/", state |-> "captured", probe |-> FALSE, idleWait |-> FALSE,
                   delay |-> 500]>>
    /\ thrown = ""
    /\ disk = [dirs |-> {"/tmp", "/tmp/p1"}, files |-> <<>>]
    /\ htmlHash = GetHTMLHash(targetUrl, "ok", "1")
    /\ downloadFolder = Null
    /\ manifestId = Null
    /\ arnsInfo = NoValue
    /\ db = NoValue
    /\ uploads = 0
    /\ result = "running"

NextRewrite ==
    \/ SaveResourcesToDisk
    \/ SaveRouteHTMLFiles

SpecRewrite == InitRewrite /\ [][NextRewrite]_vars

\* the staged copy of the captured script or stylesheet, and of the homepage markup
ScriptFile == "/tmp/p1/t.js"

StyleFile == "/tmp/p1/t.css"

HomeFile == "/tmp/p1/index.html"

\* no rewriting threw
NoRewriteFault == \A w \in warnings : w.msg # "Could not rewrite"

RewrittenFiles == IF NoRewriteFault THEN DOMAIN disk.files \cap {ScriptFile, StyleFile} ELSE {}

UrlHosts == {"p1.lovable.app", "cdn.lovable.app", "c.io", "static.hotjar.com", "fonts.googleapis.com"}

\* C17: rewriting a text that was already rewritten changes nothing, for a script, a
\* stylesheet and the markup of a route, and no reference is nested twice under /_external/
C17_Idempotent ==
    /\ \A f \in RewrittenFiles :
         /\ RewriteScript(disk.files[f]) = disk.files[f]
         /\ \A h \in UrlHosts : ~Includes(disk.files[f], "/_external/" \o h \o "/_external/")
    /\ (pc = "upload" /\ HomeFile \in DOMAIN disk.files) =>
         /\ RewriteHtml(disk.files[HomeFile]) = disk.files[HomeFile]
         /\ \A h \in UrlHosts :
              ~Includes(disk.files[HomeFile], "/_external/" \o h \o "/_external/")

\* the registry entries whose text is t and whose rewritten file is on disk
StagedWith(t) ==
    {i \in 1..Len(resources) :
        /\ resources[i].buffer = t
        /\ NoRewriteFault
        /\ IsRewritten(StagedAt(resources[i]))
        /\ StagedAt(resources[i]) \in DOMAIN disk.files}

RewrittenText(i) == disk.files[StagedAt(resources[i])]

\* the markup of the homepage is t and its file is on disk
HomeStagedWith(t) ==
    /\ pc = "upload"
    /\ HomeFile \in DOMAIN disk.files
    /\ \E i \in 1..Len(routeHtmls) : routeHtmls[i].route = "/" /\ routeHtmls[i].html = t

SameOriginUrls == {SiteUrl, BareSiteUrl}

\* C18: a script or stylesheet that held an absolute URL of the archived site's origin,
\* with or without a path, between quotes or backquotes, after from or inside import(),
\* holds no occurrence of the origin once rewritten
C18_NoSitePrefix ==
    \A l \in Leads, d \in Delimiters, u \in SameOriginUrls :
        \A i \in StagedWith(Delimited(l, d, u)) :
            ~Includes(RewrittenText(i), Origin(urlToArchive))

\* C19: the rewritten script or stylesheet has the text before the URL, the opening
\* delimiter, the closing delimiter and the text after the URL exactly as the input had them
C19_FrameKept ==
    \A l \in Leads, d \in Delimiters, u \in TextUrls :
        \A i \in StagedWith(Delimited(l, d, u)) :
            /\ StartsWith(RewrittenText(i), l.pre \o d)
            /\ EndsWith(RewrittenText(i), d \o l.post)

\* absolute URLs of other domains with a path
CrossUrls == {OtherUrl, TrackerUrl, FontUrl}

\* the local reference of the copy of u under /_external/
ExternalRef(u) == "/_external/" \o UrlHostname(u) \o UrlPathname(u)

\* C20: an absolute URL of another domain becomes /_external/<hostname>/<path> exactly
\* when the response listener does not skip its host, in scripts and stylesheets and in
\* the markup of a route
C20_ExternalUnlessSkipped ==
    /\ \A l \in Leads, d \in Delimiters, u \in CrossUrls :
         \A i \in StagedWith(Delimited(l, d, u)) :
             Includes(RewrittenText(i), ExternalRef(u)) <=> ~OnBlocklist(u)
    /\ \A g \in Tags, d \in Quote, u \in CrossUrls :
         HomeStagedWith(Delimited(g, d, u)) =>
             (Includes(disk.files[HomeFile], ExternalRef(u)) <=> ~OnBlocklist(u))

\* custom property names of the captured markup
PropertyNames == {"a", "aa"}

RgbOf(v) == "rgb(var(--" \o v \o "))"

HslOf(v) == "hsl(var(--" \o v \o "))"

\* C21: the file of a route whose markup held rgb(var(--v)) holds hsl(var(--v)), and the
\* file of no route holds rgb(var(--v)), for every custom property name v
C21_RgbBecomesHsl ==
    (pc = "upload" /\ HomeFile \in DOMAIN disk.files) =>
        \A v \in PropertyNames :
            /\ ~Includes(disk.files[HomeFile], RgbOf(v))
            /\ \A i \in 1..Len(routeHtmls) :
                 (routeHtmls[i].route = "/" /\ Includes(routeHtmls[i].html, RgbOf(v)))
                    => Includes(disk.files[HomeFile], HslOf(v))

\* the registry entries whose rewriting threw
RewriteFailed == {i \in 1..Len(resources) :
                    [url |-> resources[i].url, msg |-> "Could not rewrite"] \in warnings}

\* C22: a script or stylesheet whose rewriting failed is in the staging folder with the
\* bytes that were captured, directScrape has not rejected, and every other entry is staged
C22_FailedRewriteKeepsBytes ==
    pc \in {"save_html", "upload"} =>
        /\ thrown = ""
        /\ \A i \in RewriteFailed :
             /\ StagedAt(resources[i]) \in DOMAIN disk.files
             /\ disk.files[StagedAt(resources[i])] = resources[i].buffer
        /\ \A j \in (1..Len(resources)) \ RewriteFailed :
             (/\ ~DiskSkips(resources[j].url)
              /\ ~EndsWith(StagedAt(resources[j]), "/")
              /\ Unhindered(j)) => StagedAt(resources[j]) \in DOMAIN disk.files

\* C23: whatever the outcome of the fetch, the hash step hands over to the scrape with a
\* hash or with null, the run is not failed by it, and a run without a hash uploads the
\* folder once and stores the archive with a null hash
C23_HashBestEffort ==
    /\ [][pc = "hash" =>
            /\ pc' = "scrape"
            /\ result' = "running"
            /\ thrown' = ""
            /\ htmlHash' \in {Null, GetHTMLHash(urlToArchive, "ok", "1")}]_vars
    /\ [](pc = "hash" => ENABLED ComputeHash)
    /\ []((pc = "done" /\ htmlHash = Null /\ db # NoValue) => db[1].html_hash = Null)

\* a run whose fetch failed has scraped, uploaded and saved
C23_Witness ==
    /\ pc = "done"
    /\ result = "resolved"
    /\ htmlHash = Null
    /\ uploads = 1
    /\ db # NoValue
    /\ db[1].status = "success"

\* the step writes response i into the registry
WritesEntry(i) == received[i].state = "pending" /\ received'[i].state = "resolved"

\* C26: the registry write of a script received during the homepage visit is made before
\* route discovery scans the registry, and no registry write of a response is made after
\* the markup of a later visit was captured
C26_WriteBeforeRead ==
    [][\A i \in 1..Len(received) :
         WritesEntry(i) =>
            /\ (received[i].type = "script" /\ ~received[i].scanned) => idx = 0
            /\ \A m \in (received[i].visit + 1)..Len(visits) : visits[m].state # "captured"]_vars

\* C25: once runArchiver has resolved or rejected, the staging directory of the run does
\* not exist
C25_StagingDiscarded ==
    pc = "done" => ~ExistsSync(disk, downloadDir)

\* C35: once uploadFolderToArweave has resolved, no failure of the ArNS assignment (no
\* wallet, a name of more than 63 characters, an error of the SDK) and no failure of
\* saveMappingToDB makes runArchiver reject: it ends resolved, with the manifest ID of the
\* upload, and with arnsInfo null when the assignment failed.
C35_ArnsAndDbFailuresTolerated ==
    /\ [](manifestId # Null => result \in {"running", "resolved"})
    /\ [](manifestId # Null /\ pc = "done" => result = "resolved" /\ manifestId = "manifest1")
    /\ [](/\ manifestId # Null
          /\ pc \in {"db_save", "done"}
          /\ Len(fullName(projectID)) > MaxNameLength
          => arnsInfo = NoValue)
    /\ [][manifestId # Null => manifestId' = manifestId]_vars

\* the undername was too long and the database refused the row: the archive resolved
C35_Witness ==
    /\ pc = "done"
    /\ result = "resolved"
    /\ projectID = LongProjectID
    /\ manifestId = "manifest1"
    /\ arnsInfo = NoValue
    /\ db = NoValue

\* the stage of runArchiver a position belongs to: fingerprint, scrape, upload, ArNS,
\* database save, settled
ArchiverStage(p) ==
    CASE p = "hash" -> 0
      [] p \in {"upload", "upload_catch"} -> 2
      [] p = "arns" -> 3
      [] p = "db_save" -> 4
      [] p = "done" -> 5
      [] OTHER -> 1

\* C36: runArchiver goes through fingerprint, scrape, upload, ArNS assignment and database
\* save in this order; when the scrape failed no upload is attempted; a 'success' row is
\* saved only after the scrape and the upload succeeded and carries the manifest ID of
\* that upload; after the upload attempt, successful or not, the staging folder is gone.
C36_ArchiverOrder ==
    /\ [][/\ ArchiverStage(pc') >= ArchiverStage(pc)
          /\ (ArchiverStage(pc') = 1 /\ ArchiverStage(pc) # 1 => pc = "hash")
          /\ (ArchiverStage(pc') = 2 /\ ArchiverStage(pc) # 2
                => pc = "save_html" /\ pc' = "upload" /\ downloadFolder' # Null)
          /\ (ArchiverStage(pc') = 3 /\ ArchiverStage(pc) # 3
                => pc = "upload" /\ manifestId' # Null)
          /\ (ArchiverStage(pc') = 4 /\ ArchiverStage(pc) # 4 => pc = "arns")
          /\ (db' # db /\ db'[1].status = "success" => pc = "db_save")]_vars
    /\ [](pc = "scrape_catch" \/ result = "archiveerror" => uploads = 0)
    /\ [](db # NoValue /\ db[1].status = "success"
          => /\ uploads = 1
             /\ downloadFolder # Null
             /\ manifestId # Null
             /\ db[1].manifest_id = manifestId)
    /\ [](uploads > 0 => ~ExistsSync(disk, downloadFolder))

\* an upload that failed after a successful scrape: the folder is removed, nothing is saved
\* as a success
C36_Witness ==
    /\ pc = "done"
    /\ result = "arerror"
    /\ uploads = 1
    /\ htmlHash # Null
    /\ downloadFolder # Null
    /\ ~ExistsSync(disk, downloadFolder)

\* p is the directory root or lies below it
Inside(p, root) == p = root \/ StartsWith(p, root \o "/")

\* what the filesystem holds outside the staging directory of the project
Elsewhere(fs) ==
    [dirs |-> {d \in fs.dirs : ~Inside(d, PathJoin("/tmp", projectID))},
     files |-> [f \in {f \in DOMAIN fs.files : ~Inside(f, PathJoin("/tmp", projectID))}
                   |-> fs.files[f]]]

\* C38: every file and directory a run creates, writes or deletes lies inside
\* /tmp/<projectID>, whatever the URLs of the captured resources and the discovered routes
\* are; for a projectID with "..", "/" or "\\" no directory is created and no browser launched.
C38_ConfinedToStaging ==
    /\ [][ValidProjectID(projectID) => Elsewhere(disk') = Elsewhere(disk)]_vars
    /\ [][~ValidProjectID(projectID) => disk' = disk /\ browser' = "none"]_vars

\* C39: when saveRouteHTMLFiles has returned, distinct route records are in distinct files:
\* no two records were written to one path, and the file of each record holds the markup
\* of that record (stated for runs that captured no resource, so that no resource file
\* contends for the paths).
C39_DistinctRouteFiles ==
    (pc = "upload" /\ Len(resources) = 0) =>
        \A i, j \in 1..Len(routeHtmls) :
            /\ i # j => RouteFile(routeHtmls[i].route) # RouteFile(routeHtmls[j].route)
            /\ RouteFile(routeHtmls[i].route) \in DOMAIN disk.files
            /\ disk.files[RouteFile(routeHtmls[i].route)] = RewriteHtml(routeHtmls[i].html)

\* the path a reference asks for: the reference without its query string and fragment
RefPath(ref) == SplitFirst(SplitFirst(ref, "?"), "#")

\* what saveResourcesToDisk leaves of a quoted reference to url in a script or stylesheet
ScriptReference(url) ==
    LET t == RewriteScript("\"" \o url \o "\"") IN SubSeq(t, 2, Len(t) - 1)

\* what saveRouteHTMLFiles leaves of a src attribute with url
HtmlReference(url) ==
    LET t == RewriteHtml("src=\"" \o url \o "\"") IN SubSeq(t, 6, Len(t) - 1)

\* C40: for a captured resource of another origin, the path the rewriters put in place of
\* a reference to its URL is the path, below the staging directory, of the file its
\* payload was written to; also for a URL with a query string, a port or a trailing slash.
C40_ReferenceMeetsFile ==
    pc = "save_html" =>
        \A i \in 1..Len(resources) :
            (/\ IsParsableUrl(resources[i].url)
             /\ ~DiskSkips(resources[i].url)
             /\ ~Includes(UrlHostname(resources[i].url), "lovable.app"))
                => /\ StagedAt(resources[i]) \in DOMAIN disk.files
                   /\ RefPath(ScriptReference(resources[i].url)) = ResourceFilePath(resources[i].url)
                   /\ RefPath(HtmlReference(resources[i].url)) = ResourceFilePath(resources[i].url)

(***************************************************************************)
(* The archive service, routes/archive.js 823-984: POST / behind           *)
(* concurrentLimiter.  Each request is a record; its pc names the awaited  *)
(* step of the handler or of the runArchiver it called, with directScrape  *)
(* as the step that stages the site.                                       *)
(***************************************************************************)
MAX_CONCURRENT_ARCHIVES == 3

HexDigits == {CharAt("0123456789abcdef", i) : i \in 1..16}

\* [a-z0-9-] under the i flag, on the lower-cased text
SubdomainChars == {CharAt("0123456789abcdefghijklmnopqrstuvwxyz-", i) : i \in 1..37}

\* [0-9a-f]{8}-[0-9a-f]{4}-4[0-9a-f]{3}-[89ab][0-9a-f]{3}-[0-9a-f]{12} under the i flag
IsUuidV4(t) ==
    /\ Len(t) = 36
    /\ \A i \in 1..36 :
         CharAt(ToLowerCase(t), i) \in (IF i \in {9, 14, 19, 24} THEN {"-"}
                                        ELSE IF i = 15 THEN {"4"}
                                        ELSE IF i = 20 THEN {"8", "9", "a", "b"}
                                        ELSE HexDigits)

ProjectsPrefix == "https://lovable.dev/projects/"

\* (\?.*)?$ on the rest of a URL
QueryOrEnd(t) == t = "" \/ CharAt(t, 1) = "?"

\* oldUrlRegex.test(url)
oldUrlRegex(url) ==
    /\ Len(url) >= Len(ProjectsPrefix) + 36
    /\ StartsWithAtCI(url, 1, ProjectsPrefix)
    /\ IsUuidV4(SubSeq(url, Len(ProjectsPrefix) + 1, Len(ProjectsPrefix) + 36))
    /\ QueryOrEnd(SubSeq(url, Len(ProjectsPrefix) + 37, Len(url)))

\* url.match(newUrlRegex)[1], "" when newUrlRegex does not match
newUrlRegex(url) ==
    LET l == ToLowerCase(url)
        e == RunEnd(l, 9, SubdomainChars)
        rest == SubSeq(l, e + 12, Len(l))
    IN IF /\ StartsWith(l, "https://")
          /\ e > 9
          /\ StartsWithAt(l, e, ".lovable.app")
          /\ (QueryOrEnd(rest) \/ (CharAt(rest, 1) = "/" /\ QueryOrEnd(Tail(rest))))
       THEN SubSeq(url, 9, e - 1)
       ELSE ""

\* url.split("/projects/")[1].split("?")[0] of a URL that oldUrlRegex matches: a second
\* "/projects/" can only follow the "?"
OldProjectID(url) == SplitFirst(SubSeq(url, Len(ProjectsPrefix) + 1, Len(url)), "?")

\* force === true || force === 'true', force given as it is written in the JSON body
ForceValues == {"true", "'true'", "false", "undefined"}

ForceReArchive(force) == force \in {"true", "'true'"}

\* a request before Express hands it to concurrentLimiter
NewRequest(url, force, hangsUp) ==
    [url |-> url, force |-> force, hangsUp |-> hangsUp, pc |-> "new",
     projectID |-> "", isOldFormat |-> FALSE,
     counted |-> FALSE, decremented |-> FALSE, closed |-> FALSE,
     record |-> NoValue, runs |-> 0, htmlHash |-> Null, downloadFolder |-> Null,
     manifest |-> Null, arnsUrl |-> Null, error |-> "",
     status |-> 0, body |-> "", manifestId |-> Null]

\* res.status(status).send/json: body names the text or the shape of the JSON sent
Respond(q, status, body, manifest) ==
    [q EXCEPT !.pc = "sent", !.status = status, !.body = body, !.manifestId = manifest]

\* runArchiver 634-640 for the request, as far as its first await
CallRunArchiver(q) == [q EXCEPT !.pc = "hash", !.runs = @ + 1]

\* the URL runArchiver archives for the request
UrlToArchiveOf(q) ==
    IF q.isOldFormat THEN "https://id-preview--" \o q.projectID \o ".lovable.app/" ELSE q.url

\* decrementCounter of the request's closure
DecrementCounter(q) == [q EXCEPT !.decremented = TRUE]

\* decrementCounter without the decremented flag
DecrementEveryEvent(q) == IF q.counted THEN 1 ELSE 0

\* what a call of decrementCounter takes from activeArchiveRequests, lines 842-846
Decrement(q) == IF q.counted /\ ~q.decremented THEN 1 ELSE 0

\* router.post 862-892, from the first line of the handler to its first await
Validate(q) ==
    IF q.url = "" THEN Respond(q, 400, "url required", Null)
    ELSE IF oldUrlRegex(q.url)
    THEN LET v == [q EXCEPT !.isOldFormat = TRUE, !.projectID = OldProjectID(q.url)]
         IN IF ForceReArchive(q.force) THEN CallRunArchiver(v) ELSE [v EXCEPT !.pc = "cache_lookup"]
    ELSE IF newUrlRegex(q.url) # ""
    THEN LET v == [q EXCEPT !.projectID = newUrlRegex(q.url)]
         IN IF ForceReArchive(q.force) THEN CallRunArchiver(v) ELSE [v EXCEPT !.pc = "cache_lookup"]
    ELSE Respond(q, 400, "invalid url", Null)

\* the row of the project, SELECT ... WHERE project_id = ?
ArchiveRow(p) ==
    IF p \in MapKeys(archives, "project_id") THEN <<MapGet(archives, "project_id", p)>> ELSE NoValue

serviceRun == <<site, regs, scrape, arch, pc, browser, listening, thrown, client>>

\* concurrentLimiter 827-853 and, through next(), the handler as far as its first await
Arrive(r) ==
    /\ requests[r].pc = "new"
    /\ \A e \in 1..(r - 1) : requests[e].pc # "new"
    /\ IF activeArchiveRequests >= MAX_CONCURRENT_ARCHIVES
       THEN /\ requests' = [requests EXCEPT ![r] = [Respond(requests[r], 503, "busy", Null) EXCEPT !.pc = "done"]]
            /\ activeArchiveRequests' = activeArchiveRequests
       ELSE /\ requests' = [requests EXCEPT ![r] = Validate([requests[r] EXCEPT !.counted = TRUE])]
            /\ activeArchiveRequests' = activeArchiveRequests + 1
    /\ UNCHANGED <<serviceRun, archives, live, disk, faultBudget>>

\* lines 895-939: getArchiveRecord has settled
CacheLookup(r) ==
    /\ requests[r].pc = "cache_lookup"
    /\ \E ok \in BOOLEAN :
         /\ Outcome(ok)
         /\ requests' = [requests EXCEPT ![r] =
                IF ~ok THEN [requests[r] EXCEPT !.pc = "catch_lookup", !.error = "dberror"]
                ELSE IF ArchiveRow(requests[r].projectID) = NoValue THEN CallRunArchiver(requests[r])
                ELSE IF ArchiveRow(requests[r].projectID)[1].html_hash # Null
                THEN [requests[r] EXCEPT !.pc = "cache_hash", !.record = ArchiveRow(requests[r].projectID)]
                ELSE Respond([requests[r] EXCEPT !.record = ArchiveRow(requests[r].projectID)], 200, "cached",
                             ArchiveRow(requests[r].projectID)[1].manifest_id)]
    /\ UNCHANGED <<serviceRun, activeArchiveRequests, archives, live, disk>>

\* lines 904-924: getHTMLHash(url) has resolved
CacheHash(r) ==
    /\ requests[r].pc = "cache_hash"
    /\ \E o \in FetchOutcomes :
         /\ Outcome(o = "ok")
         /\ requests' = [requests EXCEPT ![r] =
                IF /\ GetHTMLHash(requests[r].url, o, live[1]) # Null
                   /\ GetHTMLHash(requests[r].url, o, live[1]) = requests[r].record[1].html_hash
                THEN Respond(requests[r], 200, "cached", requests[r].record[1].manifest_id)
                ELSE CallRunArchiver(requests[r])]
    /\ UNCHANGED <<serviceRun, activeArchiveRequests, archives, live, disk>>

\* path.resolve('/tmp', projectID) of the request
DownloadDirOf(q) == StripTrailing(PathJoin("/tmp", q.projectID))

\* runArchiver 642-656, directScrape 22-36: getHTMLHash(urlToArchive) has resolved and
\* directScrape runs as far as puppeteer.launch
RunHash(r) ==
    /\ requests[r].pc = "hash"
    /\ \E o \in FetchOutcomes :
         /\ Outcome(o = "ok")
         /\ requests' = [requests EXCEPT ![r] =
                IF ValidProjectID(requests[r].projectID)
                THEN [requests[r] EXCEPT !.htmlHash = GetHTMLHash(UrlToArchiveOf(requests[r]), o, live[1]), !.pc = "scrape"]
                ELSE [requests[r] EXCEPT !.htmlHash = GetHTMLHash(UrlToArchiveOf(requests[r]), o, live[1]),
                               !.pc = "log_failed", !.error = "archiveerror"]]
    /\ disk' = IF ~ValidProjectID(requests[r].projectID) \/ ExistsSync(disk, DownloadDirOf(requests[r]))
               THEN disk
               ELSE MkdirSync(disk, DownloadDirOf(requests[r]))
    /\ UNCHANGED <<serviceRun, activeArchiveRequests, archives, live>>

\* the homepage the browser captured for the request
CapturedHome(r) == <<[route |-> "/", html |-> RenderedHtml("/" \o CharAt(DigitSeq, r + 1))]>>

\* directScrape 37-403 has settled: it wrote the captured files and returned downloadDir,
\* or it rejected; on return runArchiver 669-678 runs as far as turbo.uploadFolder
Scrape(r) ==
    /\ requests[r].pc = "scrape"
    /\ \E ok \in BOOLEAN :
         /\ Outcome(ok)
         /\ requests' = [requests EXCEPT ![r] =
                IF ok THEN [requests[r] EXCEPT !.pc = "upload", !.downloadFolder = DownloadDirOf(requests[r])]
                ELSE [requests[r] EXCEPT !.pc = "log_failed", !.error = "archiveerror"]]
         /\ disk' = IF ok THEN SaveRouteHtmls(disk, CapturedHome(r), DownloadDirOf(requests[r]))
                    ELSE disk
    /\ UNCHANGED <<serviceRun, activeArchiveRequests, archives, live>>

\* the transaction id of the manifest of the upload of request r
ManifestOf(r) == "manifest" \o CharAt(DigitSeq, r + 1)

\* uploadFolderToArweave 116-168 has settled: turbo.uploadFolder read the folder, which
\* fails when the folder is not there, and the finally block removed the folder
UploadFolder(r) ==
    /\ requests[r].pc = "upload"
    /\ \E ok \in BOOLEAN :
         /\ Outcome(ok)
         /\ ok => ExistsSync(disk, requests[r].downloadFolder)
         /\ requests' = [requests EXCEPT ![r] =
                IF ok THEN [requests[r] EXCEPT !.pc = "arns", !.manifest = ManifestOf(r)]
                ELSE [requests[r] EXCEPT !.pc = "log_failed", !.error = "arerror"]]
    /\ disk' = IF ExistsSync(disk, requests[r].downloadFolder)
               THEN RmSync(disk, requests[r].downloadFolder)
               ELSE disk
    /\ UNCHANGED <<serviceRun, activeArchiveRequests, archives, live>>

\* database.js 98-117
FailedRow(q) ==
    [project_id |-> q.projectID, manifest_id |-> "failed", html_hash |-> q.htmlHash,
     arns_url |-> Null, status |-> "failed"]

\* database.js 74-93
SuccessRow(q) ==
    [project_id |-> q.projectID, manifest_id |-> q.manifest, html_hash |-> q.htmlHash,
     arns_url |-> q.arnsUrl, status |-> "success"]

\* runArchiver 657-667, 680-690: logFailedArchive has settled and runArchiver throws
LogFailedArchive(r) ==
    /\ requests[r].pc = "log_failed"
    /\ \E ok \in BOOLEAN :
         /\ Outcome(ok)
         /\ archives' = IF ok THEN MapSet(archives, "project_id", FailedRow(requests[r]))
                        ELSE archives
    /\ requests' = [requests EXCEPT ![r].pc = "catch_lookup"]
    /\ UNCHANGED <<serviceRun, activeArchiveRequests, live, disk>>

\* runArchiver 692-699: setArNSUndername has settled
SetUndername(r) ==
    /\ requests[r].pc = "arns"
    /\ \E ok \in BOOLEAN :
         /\ Outcome(ok)
         /\ requests' = [requests EXCEPT ![r] =
                [requests[r] EXCEPT !.pc = "db_save",
                          !.arnsUrl = IF ok THEN "https://" \o requests[r].projectID \o "_" \o arnsName \o ".ar.io"
                                      ELSE Null]]
    /\ UNCHANGED <<serviceRun, activeArchiveRequests, archives, live, disk>>

\* runArchiver 701-715, router.post 944-954: saveMappingToDB has settled, runArchiver
\* returns and the handler answers
SaveMappingToDB(r) ==
    /\ requests[r].pc = "db_save"
    /\ \E ok \in BOOLEAN :
         /\ Outcome(ok)
         /\ archives' = IF ok THEN MapSet(archives, "project_id", SuccessRow(requests[r]))
                        ELSE archives
    /\ requests' = [requests EXCEPT ![r] = Respond(requests[r], 200, "archived", requests[r].manifest)]
    /\ UNCHANGED <<serviceRun, activeArchiveRequests, live, disk>>

\* the text of the 500 response, lines 976-982
ErrorText(error) ==
    IF error = "archiveerror" THEN "Failed to retrieve the page for archival"
    ELSE IF error = "arerror" THEN "Error with ARWeave/Turbo"
    ELSE "Internal Server Error"

\* router.post 956-983: getArchiveRecord of the catch block has settled; when it rejects
\* the handler rejects and nothing is sent
CatchLookup(r) ==
    /\ requests[r].pc = "catch_lookup"
    /\ \E ok \in BOOLEAN :
         /\ Outcome(ok)
         /\ requests' = [requests EXCEPT ![r] =
                IF ~ok THEN [requests[r] EXCEPT !.pc = "hung"]
                ELSE IF ArchiveRow(requests[r].projectID) # NoValue
                THEN Respond(requests[r], 200, "recovered", ArchiveRow(requests[r].projectID)[1].manifest_id)
                ELSE Respond(requests[r], 500, ErrorText(requests[r].error), Null)]
    /\ UNCHANGED <<serviceRun, activeArchiveRequests, archives, live, disk>>

\* res 'finish', line 849
Finish(r) ==
    /\ requests[r].pc = "sent"
    /\ requests' = [requests EXCEPT ![r] = [DecrementCounter(requests[r]) EXCEPT !.pc = "done"]]
    /\ activeArchiveRequests' = activeArchiveRequests - Decrement(requests[r])
    /\ UNCHANGED <<serviceRun, archives, live, disk, faultBudget>>

\* res 'close', line 850: the client went away before the response was finished
Disconnect(r) ==
    /\ requests[r].hangsUp
    /\ requests[r].counted
    /\ ~requests[r].closed
    /\ requests[r].pc # "done"
    /\ requests' = [requests EXCEPT ![r] = [DecrementCounter(requests[r]) EXCEPT !.closed = TRUE]]
    /\ activeArchiveRequests' = activeArchiveRequests - Decrement(requests[r])
    /\ UNCHANGED <<serviceRun, archives, live, disk, faultBudget>>

\* the owner of a site publishes a new version of its pages
Publish ==
    /\ Len(live) > 1
    /\ live' = Tail(live)
    /\ UNCHANGED <<serviceRun, requests, activeArchiveRequests, archives, disk, faultBudget>>

NewFormatUrl == "https://p1.lovable.app/"

OldFormatUrl == ProjectsPrefix \o "12345678-1234-4234-8234-123456789abc"

\* one more site per request beyond the first
SiteOf(n) == "https://p" \o CharAt(DigitSeq, n + 1) \o ".lovable.app"

\* requests beyond MAX_CONCURRENT_ARCHIVES that the clients send at once
ExtraRequests == 1

\* the requests the clients send, in no order, and the failures the environment may produce
ServiceScenarios ==
    {[requests |-> <<NewRequest(u, f, FALSE)>>, live |-> <<"1">>, faults |-> MaxFaults] :
        u \in {"", "https://example.com/", NewFormatUrl \o "?x=1", "HTTPS://P1.Lovable.App"},
        f \in {"undefined"}}
    \cup {[requests |-> <<NewRequest(u, "false", FALSE), NewRequest(u, f, FALSE)>>,
            live |-> <<"1", "2">>, faults |-> MaxFaults] :
            u \in {NewFormatUrl, OldFormatUrl}, f \in ForceValues}
    \cup {[requests |-> [n \in 1..(MAX_CONCURRENT_ARCHIVES + ExtraRequests) |->
                            NewRequest(SiteOf(n), "true", n = 1)],
           live |-> <<"1">>, faults |-> 0]}

\* no runArchiver of the single-run specification is in progress
NoRun ==
    /\ targetUrl = ""
    /\ projectID = ""
    /\ isOldFormat = FALSE
    /\ anchors = <<>>
    /\ scripts = <<>>
    /\ charts = {}
    /\ served = {}
    /\ respBudget = 0
    /\ pc = "service"
    /\ browser = "none"
    /\ listening = FALSE
    /\ resources = <<>>
    /\ received = <<>>
    /\ warnings = {}
    /\ routeHtmls = <<>>
    /\ discoveredRoutes = {}
    /\ routes = <<>>
    /\ routesToVisit = <<>>
    /\ idx = 0
    /\ hasCharts = FALSE
    /\ visits = <<>>
    /\ thrown = ""
    /\ htmlHash = Null
    /\ downloadFolder = Null
    /\ manifestId = Null
    /\ arnsInfo = NoValue
    /\ db = NoValue
    /\ uploads = 0
    /\ result = "running"

InitService ==
    /\ \E sc \in ServiceScenarios :
         /\ requests = sc.requests
         /\ live = sc.live
         /\ faultBudget = sc.faults
    /\ activeArchiveRequests = 0
    /\ archives = <<>>
    /\ client = NoValue
    /\ scroller = NoValue
    /\ disk = [dirs |-> {"/tmp"}, files |-> <<>>]
    /\ NoRun

NextService ==
    \/ \E r \in 1..Len(requests) : Arrive(r)
    \/ \E r \in 1..Len(requests) : CacheLookup(r)
    \/ \E r \in 1..Len(requests) : CacheHash(r)
    \/ \E r \in 1..Len(requests) : RunHash(r)
    \/ \E r \in 1..Len(requests) : Scrape(r)
    \/ \E r \in 1..Len(requests) : UploadFolder(r)
    \/ \E r \in 1..Len(requests) : LogFailedArchive(r)
    \/ \E r \in 1..Len(requests) : SetUndername(r)
    \/ \E r \in 1..Len(requests) : SaveMappingToDB(r)
    \/ \E r \in 1..Len(requests) : CatchLookup(r)
    \/ \E r \in 1..Len(requests) : Finish(r)
    \/ \E r \in 1..Len(requests) : Disconnect(r)
    \/ Publish

SpecService == InitService /\ [][NextService]_vars

\* the runArchiver the request called has thrown
AttemptFailed(q) == q.error \in {"archiveerror", "arerror"}

\* no run for the project of the request has uploaded a manifest
NeverArchived(q) ==
    \A e \in 1..Len(requests) : requests[e].projectID = q.projectID => requests[e].manifest = Null

\* C28: a request whose runArchiver threw, for a project no run has archived, is answered
\* with status 500 and the text of its failure: the scraping text for archiveerror, the
\* Arweave text for arerror; it is never answered with 200
C28_FailureAnswered500 ==
    \A r \in 1..Len(requests) :
        (AttemptFailed(requests[r]) /\ requests[r].status # 0 /\ NeverArchived(requests[r]))
            => /\ requests[r].status = 500
               /\ requests[r].body = ErrorText(requests[r].error)

\* the step takes request r away from the awaited step p, and no awaited call failed in it
Leaves(r, p) == requests[r].pc = p /\ requests'[r].pc # p /\ faultBudget' = faultBudget

\* the record is of a finished archive and its fingerprint is the fingerprint of the
\* archived homepage as served now
Unchanged(q) ==
    /\ q.record[1].status = "success"
    /\ q.record[1].html_hash = computeHash(ServedHtml(UrlToArchiveOf(q), live[1]))

\* the step answers request r with the manifest of the record, without calling runArchiver
AnswersStored(r, record) ==
    /\ requests'[r].status = 200
    /\ requests'[r].manifestId = record[1].manifest_id
    /\ requests'[r].runs = 0

\* C29: a request without force whose project has the record of a finished archive with
\* the fingerprint of the homepage as it is served now, or a record without fingerprint, is answered with the
\* stored manifest ID and runArchiver is not called, for the old and the new URL format;
\* an admitted request with force calls runArchiver
C29_CachedUnlessForced ==
    [][\A r \in 1..Len(requests) :
         /\ (Leaves(r, "cache_hash") /\ Unchanged(requests[r]))
                => AnswersStored(r, requests[r].record)
         /\ (/\ Leaves(r, "cache_lookup")
             /\ ArchiveRow(requests[r].projectID) # NoValue
             /\ ArchiveRow(requests[r].projectID)[1].html_hash = Null)
                => AnswersStored(r, ArchiveRow(requests[r].projectID))
         /\ (Leaves(r, "new") /\ ForceReArchive(requests[r].force) /\ requests'[r].status = 0)
                => requests'[r].runs = 1]_vars

\* the run of request r is between the mkdirSync of directScrape and the rmSync of
\* uploadFolderToArweave: it is using its staging directory
Staging(r) == requests[r].pc \in {"scrape", "upload"}

\* C24: two runs in progress at the same time, also for the same project ID, use
\* different staging directories
C24_OwnStagingDirectory ==
    \A r \in 1..Len(requests) : \A e \in 1..Len(requests) :
        (r # e /\ Staging(r) /\ Staging(e))
            => DownloadDirOf(requests[r]) # DownloadDirOf(requests[e])

\* runArchiver has been called for request r and has neither returned nor thrown
InRunArchiver(r) == requests[r].pc \in {"hash", "scrape", "upload", "log_failed", "arns", "db_save"}

\* C27: at most MAX_CONCURRENT_ARCHIVES executions of runArchiver are in progress at any
\* time, also when the client of a request has disconnected before its archive finished
C27_AtMostThreeRuns ==
    Cardinality({r \in 1..Len(requests) : InRunArchiver(r)}) <= MAX_CONCURRENT_ARCHIVES

\* the manifest IDs successful uploads have returned
RealUploads == {requests[e].manifest : e \in 1..Len(requests)} \ {Null}

\* the project of the row has a stored successful archive
StoredSuccess(rows, id) ==
    \E i \in 1..Len(rows) : rows[i].project_id = id /\ rows[i].status = "success"

\* C37: once a project has a stored successful archive, the manifest ID stored for it is
\* one a successful upload returned: no later attempt, failed or not, replaces the
\* successful row by a row that is not of a real upload, and a 200 response for such a
\* project carries the ID of a real upload.
C37_SuccessKept ==
    [][/\ \A i \in 1..Len(archives) :
            archives[i].status = "success"
                => \E j \in 1..Len(archives') :
                      /\ archives'[j].project_id = archives[i].project_id
                      /\ archives'[j].status = "success"
                      /\ archives'[j].manifest_id \in RealUploads'
       /\ \A r \in 1..Len(requests) :
            (/\ requests[r].status = 0
             /\ requests'[r].status = 200
             /\ StoredSuccess(archives, requests[r].projectID))
                => requests'[r].manifestId \in RealUploads']_vars

(***************************************************************************)
(* The page, script.js 1100-1154: archiveProject and the responses the     *)
(* network gives it.  client holds the call in progress: its position, the *)
(* POST requests it sent with the status each was answered with (0 while   *)
(* pending, -1 when fetch rejected), and what the page shows.              *)
(***************************************************************************)
\* statuses a POST can be answered with, by the service or by the proxy before it
Statuses == {200, 400, 429, 500, 502, 503}

NetworkError == -1

\* a retry on every status of the 5xx class
ShouldRetryServerError(status) == status >= 500

\* line 1121: response.status === 502
ShouldRetry(status) == status = 502

\* response.ok
ResponseOk(status) == status >= 200 /\ status <= 299

\* JSON.stringify(requestBody), lines 1105-1110
RequestBody(c) == IF c.force THEN [url |-> c.url, force |-> "true"] ELSE [url |-> c.url, force |-> "undefined"]

\* fetch(API_URL, {method: 'POST', ...}) has been called
Post(c) == [c EXCEPT !.posts = Append(@, [body |-> RequestBody(c), status |-> 0])]

\* the pending fetch has settled with the status
Answered(c, status) == [c EXCEPT !.posts = SetLast(@, "status", status)]

\* the catch of lines 1151-1153
ShowNetworkError(c) == [c EXCEPT !.pc = "done", !.view = "error", !.message = "Network error"]

\* archiveProject 1100-1118: showLoading and the first fetch
CallArchiveProject ==
    /\ client # NoValue
    /\ client[1].pc = "start"
    /\ client' = <<[Post(client[1]) EXCEPT !.pc = "fetch1", !.view = "loading"]>>
    /\ UNCHANGED <<site, requests, activeArchiveRequests, archives, live, regs, scrape, disk,
                   arch, faultBudget, pc, browser, listening, thrown>>

\* lines 1112-1121: the first fetch has settled
FirstResponse ==
    /\ client # NoValue
    /\ client[1].pc = "fetch1"
    /\ \E status \in Statuses \cup {NetworkError} :
         client' = <<IF status = NetworkError THEN ShowNetworkError(Answered(client[1], status))
                     ELSE IF ShouldRetry(status) THEN [Answered(client[1], status) EXCEPT !.pc = "wait"]
                     ELSE [Answered(client[1], status) EXCEPT !.pc = "read"]>>
    /\ UNCHANGED <<site, requests, activeArchiveRequests, archives, live, regs, scrape, disk,
                   arch, faultBudget, pc, browser, listening, thrown>>

\* lines 1121-1128: the timer of one second has fired and the second fetch is made
RetryAfterDelay ==
    /\ client # NoValue
    /\ client[1].pc = "wait"
    /\ client' = <<[Post(client[1]) EXCEPT !.pc = "fetch2"]>>
    /\ UNCHANGED <<site, requests, activeArchiveRequests, archives, live, regs, scrape, disk,
                   arch, faultBudget, pc, browser, listening, thrown>>

\* lines 1123-1128: the second fetch has settled
SecondResponse ==
    /\ client # NoValue
    /\ client[1].pc = "fetch2"
    /\ \E status \in Statuses \cup {NetworkError} :
         client' = <<IF status = NetworkError THEN ShowNetworkError(Answered(client[1], status))
                     ELSE [Answered(client[1], status) EXCEPT !.pc = "read"]>>
    /\ UNCHANGED <<site, requests, activeArchiveRequests, archives, live, regs, scrape, disk,
                   arch, faultBudget, pc, browser, listening, thrown>>

\* the status of the response held by the variable response
LastStatus(c) == c.posts[Len(c.posts)].status

\* lines 1130-1153: the body of the response has been read, or reading it rejected
ReadBody ==
    /\ client # NoValue
    /\ client[1].pc = "read"
    /\ \E ok \in BOOLEAN :
         client' = <<IF ~ok THEN ShowNetworkError(client[1])
                     ELSE IF ResponseOk(LastStatus(client[1]))
                     THEN [client[1] EXCEPT !.pc = "done", !.view = "success", !.message = ""]
                     ELSE IF LastStatus(client[1]) >= 400 /\ LastStatus(client[1]) < 500
                     THEN [client[1] EXCEPT !.pc = "done", !.view = "error", !.message = "Error: text"]
                     ELSE [client[1] EXCEPT !.pc = "done", !.view = "error",
                                            !.message = "Failed to retrieve the page for archival"]>>
    /\ UNCHANGED <<site, requests, activeArchiveRequests, archives, live, regs, scrape, disk,
                   arch, faultBudget, pc, browser, listening, thrown>>

\* the calls of archiveProject: from the form with the URL typed, from the re-archive
\* button with force
ClientCalls ==
    {[url |-> u, force |-> f, pc |-> "start", posts |-> <<>>, view |-> "form", message |-> ""] :
        u \in {NewFormatUrl, OldFormatUrl, SiteOf(2)}, f \in BOOLEAN}

InitClient ==
    /\ client \in {<<c>> : c \in ClientCalls}
    /\ scroller = NoValue
    /\ requests = <<>>
    /\ activeArchiveRequests = 0
    /\ archives = <<>>
    /\ live = <<"1">>
    /\ faultBudget = 0
    /\ disk = [dirs |-> {"/tmp"}, files |-> <<>>]
    /\ NoRun

NextClient ==
    \/ CallArchiveProject
    \/ FirstResponse
    \/ RetryAfterDelay
    \/ SecondResponse
    \/ ReadBody

SpecClient == InitClient /\ [][NextClient]_vars

\* C30: one call of archiveProject sends at most two POST requests, the second only when
\* the first was answered with status 502, and the answer to the second is final: after
\* it the call reads the body and shows the result, whatever the status
C30_RetryOnceOn502 ==
    /\ [](client # NoValue =>
            /\ Len(client[1].posts) <= 2
            /\ Len(client[1].posts) = 2 => client[1].posts[1].status = 502)
    /\ [][(client # NoValue /\ client[1].pc = "fetch2")
             => /\ client'[1].pc \in {"read", "done"}
                /\ Len(client'[1].posts) = 2]_vars

\* the call retried after a 502, the retry was answered with 502 as well, and the call
\* ended showing the error
C30_Witness ==
    /\ client # NoValue
    /\ client[1].pc = "done"
    /\ Len(client[1].posts) = 2
    /\ client[1].posts[1].status = 502
    /\ client[1].posts[2].status = 502
    /\ client[1].view = "error"

\* the admitted requests whose decrementCounter has not taken its one from the counter
Holding == {r \in 1..Len(requests) : requests[r].counted /\ ~requests[r].decremented}

\* the response of request r is open: it was neither finished nor closed
OpenResponse(r) == requests[r].pc \notin {"new", "done"} /\ ~requests[r].closed

\* C31: activeArchiveRequests is between 0 and MAX_CONCURRENT_ARCHIVES; it counts one for
\* each admitted request until the first of 'finish' and 'close' of its response and nothing
\* after it; a request answered 503 is not counted; it is 0 when no admitted request has an
\* open response
C31_CounterExact ==
    /\ activeArchiveRequests \in 0..MAX_CONCURRENT_ARCHIVES
    /\ activeArchiveRequests = Cardinality(Holding)
    /\ \A r \in 1..Len(requests) : requests[r].status = 503 => ~requests[r].counted
    /\ (\A r \in 1..Len(requests) : requests[r].counted => ~OpenResponse(r))
          => activeArchiveRequests = 0

\* every request is over; one was answered 503, and for another both 'close' and 'finish'
\* have fired
C31_Witness ==
    /\ \A r \in 1..Len(requests) : requests[r].pc = "done"
    /\ \E r \in 1..Len(requests) : requests[r].status = 503
    /\ \E r \in 1..Len(requests) : requests[r].closed /\ requests[r].status = 200
    /\ activeArchiveRequests = 0

\* the step writes a file: it creates one or changes the content of one
WritesFile ==
    \E f \in DOMAIN disk'.files : f \notin DOMAIN disk.files \/ disk'.files[f] # disk.files[f]

\* C32: the stages of directScrape occur in a fixed order.  The listener is attached
\* before the first navigation; discovery runs after the capture of the homepage markup and
\* before any route visit; the final delay follows the last route visit; the browser is
\* closed after the final delay; files are written after the browser is closed, route
\* markup after the resources; the registry and the route records do not change from the
\* start of materialization to its end
C32_StageOrder ==
    /\ [](/\ visits # <<>> => listening
          /\ idx > 0 => visits[1].state = "captured"
          /\ Len(visits) > 1 => idx > 0
          /\ pc \in {"final_delay", "close", "save_resources", "save_html"}
                => /\ idx > 0
                   /\ Len(visits) = Len(routesToVisit) + 1
                   /\ \A m \in 1..Len(visits) : visits[m].state # "running")
    /\ [][/\ pc' = "close" /\ pc # "close" => pc = "final_delay"
          /\ (browser = "open" /\ browser' = "closed" /\ thrown' = "") => pc = "close"
          /\ pc' = "save_resources" /\ pc # "save_resources" => pc = "close"
          /\ pc' = "save_html" /\ pc # "save_html" => pc = "save_resources"
          /\ WritesFile => browser = "closed" /\ pc \in {"save_resources", "save_html"}
          /\ pc \in {"save_resources", "save_html"}
                => resources' = resources /\ routeHtmls' = routeHtmls]_vars

\* a run with a route visit has written a resource and the markup of its routes
C32_Witness ==
    /\ pc = "upload"
    /\ Len(visits) > 1
    /\ resources # <<>>
    /\ Len(routeHtmls) > 1
    /\ Cardinality(DOMAIN disk.files) > 2

\* the routes page.evaluate returned, lines 195-254
FromDom == DomRoutes(anchors, scripts, urlToArchive)

\* C33: after discovery, a route that only the bundle scan found does not start with
\* /assets or /api and is longer than 1 and shorter than 50 (a route that does, or is not,
\* is one of the DOM routes); the route list has no route twice and not "/"; after the
\* homepage no path is navigated to twice
C33_BundleRoutesFiltered ==
    idx > 0 =>
        /\ \A i \in 1..Len(routes) :
              (\/ StartsWith(routes[i], "/assets")
               \/ StartsWith(routes[i], "/api")
               \/ Len(routes[i]) <= 1
               \/ Len(routes[i]) >= 50)
                 => routes[i] \in SeqToSet(FromDom)
        /\ \A i \in 1..Len(routes) : \A j \in 1..Len(routes) : routes[i] = routes[j] => i = j
        /\ \A i \in 1..Len(routes) : routes[i] # "/"
        /\ \A m \in 2..Len(visits) : \A n \in 2..Len(visits) :
              visits[m].route = visits[n].route => m = n

\* the bundle with the reserved, the repeated and the long paths was scanned: its two
\* admissible paths were added after the DOM routes, and every route was visited
C33_Witness ==
    /\ idx > 0
    /\ routes = <<"/x", "/api", "/e", LongRoute>>
    /\ Len(visits) = Len(routes) + 1

(***************************************************************************)
(* The scroll of a visit, scraper.js 136-150 and 321-336: the interval     *)
(* callback running in the page, and the page.evaluate that awaits it.     *)
(* The callback compares totalHeight with the scrollHeight it has just     *)
(* read; scroller holds their difference, ahead = scrollHeight -           *)
(* totalHeight, as it is when the next callback reads the height, and what *)
(* the page adds to its height after each scrollBy, and the callbacks run  *)
(* so far, counted up to the deadline and, where there is no deadline,     *)
(* restarted from 0 after it.                                              *)
(***************************************************************************)
\* const distance = 100
distance == 100

\* callbacks after which the protocol timeout of the browser library, where the library
\* has one, rejects a page.evaluate that has not settled: more than any page modelled
\* that stops growing needs
DeadlineTicks == 15

\* scroll heights of the pages when the loop starts, and the growth after each scrollBy
ScrollHeights == {50 * n : n \in 0..12}

Growths == {0, 50, 100}

\* the visits whose scroll starts
Scrollers ==
    {[visit |-> v, deadline |-> d, growth |-> g, ahead |-> h, ticks |-> 0, pc |-> "scrolling"] :
        v \in {"home", "route"}, d \in BOOLEAN, g \in Growths, h \in ScrollHeights}

\* the callback ends the loop: totalHeight + distance >= scrollHeight
ReachesEnd(c) == c.ahead <= distance

\* one interval callback, lines 140-148: when the loop ends the promise resolves and
\* page.evaluate returns; otherwise the page grows and the timer fires again
ScrollTick ==
    /\ scroller # NoValue
    /\ scroller[1].pc = "scrolling"
    /\ scroller' = <<IF ReachesEnd(scroller[1])
                     THEN [scroller[1] EXCEPT !.pc = "scrolled"]
                     ELSE [scroller[1] EXCEPT
                             !.ahead = @ - distance + scroller[1].growth,
                             !.ticks = IF @ < DeadlineTicks THEN @ + 1
                                       ELSE IF scroller[1].deadline THEN @ ELSE 0]>>
    /\ UNCHANGED <<targetUrl, projectID, isOldFormat, anchors, scripts, charts, served, service,
                   regs, scrape, disk, arch, faultBudget, pc, browser, listening, thrown>>

\* page.evaluate rejects because the call did not settle in time: the catch of the route
\* (368-370) abandons a route, the catch of directScrape (399-402) ends the run
ProtocolTimeout ==
    /\ scroller # NoValue
    /\ scroller[1].pc = "scrolling"
    /\ scroller[1].deadline
    /\ scroller[1].ticks = DeadlineTicks
    /\ scroller' = <<[scroller[1] EXCEPT !.pc = IF scroller[1].visit = "home" THEN "failed"
                                                ELSE "abandoned"]>>
    /\ UNCHANGED <<targetUrl, projectID, isOldFormat, anchors, scripts, charts, served, service,
                   regs, scrape, disk, arch, faultBudget, pc, browser, listening, thrown>>

\* the steps of the visit after its scroll, as far as page.content()
CaptureAfterScroll ==
    /\ scroller # NoValue
    /\ scroller[1].pc = "scrolled"
    /\ scroller' = <<[scroller[1] EXCEPT !.pc = "captured"]>>
    /\ UNCHANGED <<targetUrl, projectID, isOldFormat, anchors, scripts, charts, served, service,
                   regs, scrape, disk, arch, faultBudget, pc, browser, listening, thrown>>

InitScroll ==
    /\ scroller \in {<<c>> : c \in Scrollers}
    /\ requests = <<>>
    /\ activeArchiveRequests = 0
    /\ archives = <<>>
    /\ live = <<"1">>
    /\ client = NoValue
    /\ faultBudget = 0
    /\ disk = [dirs |-> {"/tmp"}, files |-> <<>>]
    /\ NoRun

NextScroll ==
    \/ ScrollTick
    \/ ProtocolTimeout
    \/ CaptureAfterScroll

\* the timer fires, the timeout of the library fires, the awaited steps of the visit settle
SpecScroll ==
    /\ InitScroll
    /\ [][NextScroll]_vars
    /\ WF_vars(ScrollTick)
    /\ WF_vars(ProtocolTimeout)
    /\ WF_vars(CaptureAfterScroll)

\* C34: the scroll of every visit ends, also on a page that grows with each scroll step,
\* and the visit reaches the capture of its markup or is abandoned
C34_ScrollEnds ==
    <>(scroller # NoValue /\ scroller[1].pc \in {"captured", "abandoned"})

====
